---- MODULE Spec2Model ----
(***************************************************************************)
(* The logging runtime of pkg/infra/log (src/unnamed/part_000): the        *)
(* logManager registry, its named ConcreteLoggers, the per-sink level      *)
(* filters, the configuration apply (ReadLoggingConfig) and the handler    *)
(* lifecycle lists (Close, Reload).                                        *)
(*                                                                         *)
(* Spec        the registry under concurrency: goroutines run New,         *)
(*             initialize and log calls step by step, between the lock     *)
(*             operations of lm.mutex and of each logger's own mutex.      *)
(* SpecConfig  the configuration apply and the lifecycle operations, one   *)
(*             call at a time.                                             *)
(* SpecLife    configurations applied, handlers closed and reloaded.       *)
(* SpecApply   configurations that fail: missing sections, file handlers   *)
(*             that cannot be built, modes without a handler.              *)
(* SpecWrite   log calls through sinks whose write can fail.               *)
(* SpecDerive  loggers looked up and derived from one another.             *)
(* SpecShutdown  Close() called by goroutines while configurations are     *)
(*             applied.                                                    *)
(* SpecLookup  New called with and without a name while initialize runs.   *)
(* SpecContext  loggers given more context with WithPrefix and WithSuffix  *)
(*             while configurations are applied.                           *)
(* SpecLocks   every operation with each lock request a step of its own,   *)
(*             under the fairness of the scheduler and of sync.RWMutex.    *)
(* SpecReconfigure  records written while configurations are applied and   *)
(*             handlers closed.                                            *)
(* SpecLevels  configurations whose level names are spelled in every case, *)
(*             or are no level names.                                      *)
(***************************************************************************)
EXTENDS Integers, Sequences, FiniteSets, TLC

\* ---------------------------------------------------------------- bounds

NumThreads == 2
MaxInits == 2
MaxLogsInFlight == 1
MaxLoggers == 3
Threads == 1..NumThreads

\* ---------------------------------------------------------------- levels

Levels == {"debug", "info", "warn", "error"}

LevelOrd(l) ==
  CASE l = "debug" -> 0
    [] l = "info" -> 1
    [] l = "warn" -> 2
    [] l = "error" -> 3

\* level.NewFilter(next, AllowX): a record carrying level L passes iff L is
\* at or above X.
Allow(L, T) == LevelOrd(L) >= LevelOrd(T)

\* A filtered sink is the sink with the chain of thresholds wrapped around it
\* (outermost last); a record passes when every filter of the chain allows it.
Passes(L, fl) == \A i \in DOMAIN fl.allowed : Allow(L, fl.allowed[i])

NewFilter(val, lvl) == [val |-> val.val, allowed |-> Append(val.allowed, lvl)]

\* A sink as a handler builds it: no filter around it yet.
Raw(h) == [val |-> h, allowed |-> <<>>]

\* ------------------------------------------------------- names and context

Names == {"db", "x"}

\* Values that are not Go strings (ctx[0].(string) fails): a number, and nil.
NonStrings == {"#42", "#nil"}

IsString(v) == v \notin NonStrings

\* The argument lists New is called with.
NewArgs == {<<"db">>, <<"x">>, <<"db", "k", "v">>}

\* sort.Strings order of the logger names.
NameRank(n) == CASE n = "db" -> 1 [] n = "x" -> 2 [] OTHER -> 3

SortStrings(S) ==
  CHOOSE s \in [1..Cardinality(S) -> S] :
    /\ \A i, j \in DOMAIN s : i < j => NameRank(s[i]) < NameRank(s[j])
    /\ \A n \in S : \E i \in DOMAIN s : s[i] = n

\* ------------------------------------------------------ loggers (go-kit)

\* gokitlog.With(logger, keyvals...): the same sinks, the keyvals appended
\* to the context the logger already carries; what it carries as a suffix
\* stays.
With(logger, ctx) == [logger EXCEPT !.ctx = @ \o ctx]

\* The key/value pairs a logger puts after those of the record.
SuffixOf(logger) == IF "suffix" \in DOMAIN logger THEN logger.suffix ELSE <<>>

\* gokitlog.WithPrefix(logger, keyvals...): the keyvals go in front of the
\* context the logger already carries.
gokitWithPrefix(logger, ctx) == [logger EXCEPT !.ctx = ctx \o @]

\* gokitlog.WithSuffix(logger, keyvals...): the keyvals are added to those
\* the logger puts after the record's.
gokitWithSuffix(logger, ctx) ==
  [ctx |-> logger.ctx, loggers |-> logger.loggers,
   suffix |-> SuffixOf(logger) \o ctx]

\* with, lines 256-263: the delegate is replaced by wrapped, which is
\* withFunc(ctxLogger.logger, ctx...); cl.ctx is not touched.
with(ctxLogger, wrapped, ctx) ==
  IF Len(ctx) = 0 THEN ctxLogger ELSE [ctxLogger EXCEPT !.logger = wrapped]

\* &compositeLogger{loggers: ls}
Composite(ls) == [ctx |-> <<>>, loggers |-> ls]

newConcreteLogger(logger, ctx) ==
  [ctx |-> ctx, logger |-> IF Len(ctx) = 0 THEN logger ELSE With(logger, ctx)]

\* Mutant: SetLogger leaves the old delegate in place.
SetLoggerDropped(cl, logger) == cl

\* ConcreteLogger.SetLogger: the object stays, its delegate is replaced.
SetLogger(cl, logger) == [cl EXCEPT !.logger = With(logger, cl.ctx)]

\* LogWithFilters{val, filters, maxLevel}
LogWithFilters(h, maxLevel, filters) ==
  [val |-> Raw(h), filters |-> filters, maxLevel |-> maxLevel]

NoFilters == [n \in {} |-> "error"]

\* init(): the console format on os.Stderr behind AllowInfo.
StderrHandler == <<"stderr", 0>>

\* Mutant: the default console sink lets debug records through.
DefaultLoggerAtDebug == Composite(<<NewFilter(Raw(StderrHandler), "debug")>>)

DefaultLogger == Composite(<<NewFilter(Raw(StderrHandler), "info")>>)

\* initialize, lines 68-71: every sink behind its own maxLevel.
DefaultLoggers(loggers) ==
  [i \in DOMAIN loggers |-> NewFilter(loggers[i].val, loggers[i].maxLevel)]

\* Mutant: initialize ignores the per-name overrides.
CtxLoggersNoOverride(loggers, name) == DefaultLoggers(loggers)

\* initialize, lines 83-91: the sinks of an already registered name.
CtxLoggers(loggers, name) ==
  [i \in DOMAIN loggers |->
     IF name \notin DOMAIN loggers[i].filters
       THEN NewFilter(loggers[i].val, loggers[i].maxLevel)
       ELSE NewFilter(loggers[i].val, loggers[i].filters[name])]

\* Mutant: every filtered sink is put in front of those already built.
NewCompositeReversed(logFilters, loggerName, acc) ==
  acc \o [i \in 1..Len(logFilters) |->
           LET logWithFilter == logFilters[Len(logFilters) + 1 - i] IN
           IF loggerName \in DOMAIN logWithFilter.filters
             THEN NewFilter(logWithFilter.val, logWithFilter.filters[loggerName])
             ELSE NewFilter(logWithFilter.val, logWithFilter.maxLevel)]

\* New, lines 139-149: the composite of a new name, appended sink by sink.
RECURSIVE NewComposite(_, _, _)
NewComposite(logFilters, loggerName, acc) ==
  IF logFilters = <<>> THEN acc
  ELSE LET logWithFilter == Head(logFilters)
           val == IF loggerName \in DOMAIN logWithFilter.filters
                    THEN NewFilter(logWithFilter.val, logWithFilter.filters[loggerName])
                    ELSE NewFilter(logWithFilter.val, logWithFilter.maxLevel)
       IN NewComposite(Tail(logFilters), loggerName, Append(acc, val))

\* Mutant: the loop filters the elements of lm.logFilters themselves.
LogFiltersFilteredInPlace(logFilters, loggerName) ==
  [i \in DOMAIN logFilters |->
     [logFilters[i] EXCEPT !.val =
        NewFilter(@, IF loggerName \in DOMAIN logFilters[i].filters
                       THEN logFilters[i].filters[loggerName]
                       ELSE logFilters[i].maxLevel)]]

\* New, lines 140-146: logWithFilter is the loop's copy of the element, and
\* the assignments to logWithFilter.val change the copy; lm.logFilters is
\* after the loop what it was before.
LogFiltersAfterNew(logFilters, loggerName) == logFilters

\* New, lines 131-151: the ConcreteLogger of an unseen name.
NewCtxLogger(rootLogger, logFilters, ctx) ==
  LET full == <<"logger">> \o ctx IN
  IF Len(logFilters) = 0
    THEN newConcreteLogger(rootLogger.logger, full)
    ELSE newConcreteLogger(Composite(NewComposite(logFilters, ctx[1], <<>>)), full)

\* The descriptor lists initialize is called with; e tags the handlers built
\* for this call (every apply constructs its handlers anew).
DescriptorLists(e) ==
  { <<LogWithFilters(<<"console", e>>, "info", NoFilters),
      LogWithFilters(<<"file", e>>, "warn", [n \in {"db"} |-> "debug"])>>,
    <<LogWithFilters(<<"file", e>>, "debug",
                     [n \in {"db", "x"} |-> IF n = "db" THEN "error" ELSE "warn"])>> }

\* ------------------------------------------------------------------ state

VARIABLES
  rootLogger,      \* lm.ConcreteLogger: [ctx, logger]
  objs,            \* the ConcreteLoggers New has allocated, in allocation order
  loggersByName,   \* lm.loggersByName: name -> index into objs
  logFilters,      \* lm.logFilters
  mutex,           \* lm.mutex: [writer, readers]
  clReaders,       \* read locks held on loggers' own mutexes: <<thread, obj>>
  loggersToClose,  \* package variable loggersToClose
  loggersToReload, \* package variable loggersToReload
  pc,              \* where each goroutine is
  local,           \* each goroutine's arguments and local variables
  returned,        \* the named loggers New has returned: [name, args, obj, ctx, epoch]
  initCount,       \* initialize calls begun
  lastD,           \* argument of the initialize that returned last
  applies,         \* ReadLoggingConfig calls begun
  lastApply,       \* the last ReadLoggingConfig call: its input and outcome
  closed,          \* every handler close has been invoked on, in order
  lastClose,       \* the last Close(): the list it found, its calls, its result
  lastReload,      \* the last Reload(): the list it found, its calls, its result
  closedSinceApply, \* Close() has run and no configuration was built since
  lastDerive       \* the last ConcreteLogger.New: its receiver, arguments, result

regVars == <<rootLogger, objs, loggersByName, logFilters>>
lockVars == <<mutex, clReaders>>
lifeVars == <<loggersToClose, loggersToReload>>
threadVars == <<pc, local, returned>>
cfgVars == <<applies, lastApply, closed, lastClose, lastReload, closedSinceApply,
            lastDerive>>
vars == <<regVars, lockVars, lifeVars, threadVars, initCount, lastD, cfgVars>>

NoMap == [n \in {} |-> 0]

NoLocal ==
  [ctx |-> <<>>, built |-> newConcreteLogger(DefaultLogger, <<>>), D |-> <<>>,
   names |-> <<>>, obj |-> 0, kind |-> "", lvl |-> "info",
   logger |-> DefaultLogger, idx |-> 0, delivered |-> <<>>,
   seenD |-> <<>>, quiet |-> FALSE,
   list |-> <<>>, failing |-> {}, calls |-> <<>>, err |-> <<>>, at |-> 0]

\* What the callers of New have been handed: for every distinct call (args)
\* the object and the context it carries, and (epoch) how many initialize calls
\* had begun when the object was first handed out.
Returned(args, obj, ctx) ==
  LET first == {r \in returned : r.obj = obj}
      epoch == IF first = {} THEN initCount ELSE (CHOOSE r \in first : TRUE).epoch
  IN returned \cup {[name |-> args[1], args |-> args, obj |-> obj, ctx |-> ctx,
                     epoch |-> epoch]}

\* A nil error.
Nil == <<>>

\* The error a handler's Close, Reload or write returns when it fails.
ErrOf(what, h) == <<what, h>>

\* A record of one Close() or Reload(): the list it found, the handlers that
\* were going to fail, the handlers it called and the error it returned; for a
\* Close(), whether another Close() came before it with no configuration built
\* in between (second), and what that one returned (prev); at counts the
\* ReadLoggingConfig calls begun when it ran.
NoCalls == [list |-> <<>>, failing |-> {}, calls |-> <<>>, err |-> Nil,
            second |-> FALSE, prev |-> Nil, at |-> 0]

NoApply == [modes |-> <<>>, cfg |-> <<>>, status |-> "", err |-> Nil,
            logged |-> <<>>, configLoggers |-> <<>>]

\* No ConcreteLogger.New has been called (caller -1).
NoDerive == [caller |-> -1, ctx |-> <<>>, callerCtx |-> <<>>, keyvals |-> <<>>,
             result |-> 0, created |-> FALSE]

\* init() and newManager, lines 39-62.
Init ==
  /\ rootLogger = newConcreteLogger(DefaultLogger, <<>>)
  /\ objs = <<>>
  /\ loggersByName = NoMap
  /\ logFilters = <<>>
  /\ mutex = [writer |-> 0, readers |-> {}]
  /\ clReaders = {}
  /\ loggersToClose = <<>>
  /\ loggersToReload = <<>>
  /\ pc = [t \in Threads |-> "idle"]
  /\ local = [t \in Threads |-> NoLocal]
  /\ returned = {}
  /\ initCount = 0
  /\ lastD = <<>>
  /\ applies = 0
  /\ lastApply = NoApply
  /\ closed = <<>>
  /\ lastClose = NoCalls
  /\ lastReload = NoCalls
  /\ closedSinceApply = FALSE
  /\ lastDerive = NoDerive

\* ------------------------------------------------------------------ locks

\* Mutant: New and initialize do not exclude one another.
CanLockAlways(t) == TRUE

\* sync.RWMutex.Lock on lm.mutex: no other writer, no reader, and no RLock
\* call that the last Unlock has let in.
CanLock(t) ==
  /\ mutex.writer = 0
  /\ mutex.readers = {}
  /\ \A u \in Threads : pc[u] # "rootLog_granted"

\* sync.RWMutex.RLock on lm.mutex: no writer.
CanRLock(t) == mutex.writer = 0

Lock(t) == [mutex EXCEPT !.writer = t]

\* Mutant: the deferred lm.mutex.Unlock() is missing.
UnlockForgotten(t) == mutex

Unlock(t) == [mutex EXCEPT !.writer = 0]

\* sync.RWMutex.Unlock on lm.mutex (lines 66 and 117) lets in the RLock
\* calls (line 106) that are blocked behind the writer: they have the read
\* lock from then on, and the next Lock waits for them. p is pc after the
\* unlocking goroutine's own step.
ReadersReleased(p) ==
  [u \in Threads |-> IF p[u] = "rootLog_rlock" THEN "rootLog_granted" ELSE p[u]]

\* cl.mutex.Lock of the logger obj (0 is the root): no reader holds it.
CanLockLogger(obj) ==
  /\ \A r \in clReaders : r[2] # obj
  /\ \A u \in Threads : ~(pc[u] = "Log_granted" /\ local[u].obj = obj)

\* The Unlock of a logger's mutex (lines 178 and 183) lets in the RLock
\* calls (lines 205 and 215) that are blocked behind the writer.
LoggerReadersReleased(p, obj) ==
  [u \in Threads |->
     IF p[u] = "Log_rlock" /\ local[u].obj = obj THEN "Log_granted" ELSE p[u]]

\* The ConcreteLogger a reference denotes.
Deref(obj) == IF obj = 0 THEN rootLogger ELSE objs[obj]

\* The name an object is registered under.
Registered(obj) == \E n \in DOMAIN loggersByName : loggersByName[n] = obj

NameOf(obj) == CHOOSE n \in DOMAIN loggersByName : loggersByName[n] = obj

Initializing == \E t \in Threads : pc[t] \in {"init_root", "init_names"}

\* --------------------------------------------------------- logManager.New

\* New is called: the goroutine arrives at lm.mutex.Lock(), line 116.
NewCall(t, ctx) ==
  /\ pc[t] = "idle"
  /\ pc' = [pc EXCEPT ![t] = "New_lock"]
  /\ local' = [local EXCEPT ![t] = [NoLocal EXCEPT !.ctx = ctx]]
  /\ UNCHANGED <<regVars, lockVars, lifeVars, returned, initCount, lastD, cfgVars>>

\* New, lines 116-117: lm.mutex.Lock() is granted.
NewLock(t) ==
  /\ pc[t] = "New_lock"
  /\ CanLock(t)
  /\ mutex' = Lock(t)
  /\ pc' = [pc EXCEPT ![t] = "New_lookup"]
  /\ UNCHANGED <<regVars, clReaders, lifeVars, local, returned, initCount, lastD, cfgVars>>

\* New, lines 118-129: no name gives the root, a registered name its logger.
NewLookup(t) ==
  /\ pc[t] = "New_lookup"
  /\ LET ctx == local[t].ctx IN
     IF Len(ctx) = 0 \/ ~IsString(ctx[1])
       THEN /\ returned' = returned
            /\ mutex' = Unlock(t)
            /\ pc' = ReadersReleased([pc EXCEPT ![t] = "idle"])
            /\ local' = [local EXCEPT ![t] = NoLocal]
       ELSE IF ctx[1] \in DOMAIN loggersByName
         THEN /\ returned' = Returned(ctx, loggersByName[ctx[1]],
                                       objs[loggersByName[ctx[1]]].ctx)
              /\ mutex' = Unlock(t)
              /\ pc' = ReadersReleased([pc EXCEPT ![t] = "idle"])
              /\ local' = [local EXCEPT ![t] = NoLocal]
         ELSE /\ pc' = [pc EXCEPT ![t] = "New_build"]
              /\ UNCHANGED <<returned, mutex, local>>
  /\ UNCHANGED <<regVars, clReaders, lifeVars, initCount, lastD, cfgVars>>

\* New, lines 131-151: build the logger from lm.logFilters (or, with no
\* descriptor applied yet, from the root's delegate).
NewBuild(t) ==
  /\ pc[t] = "New_build"
  /\ local' = [local EXCEPT ![t].built =
                 NewCtxLogger(rootLogger, logFilters, local[t].ctx)]
  /\ logFilters' = LogFiltersAfterNew(logFilters, local[t].ctx[1])
  /\ pc' = [pc EXCEPT ![t] = "New_register"]
  /\ UNCHANGED <<rootLogger, objs, loggersByName, lockVars, lifeVars, returned,
                 initCount, lastD, cfgVars>>

\* New, lines 135-136 and 152-153: register, return, unlock (deferred).
NewRegister(t) ==
  /\ pc[t] = "New_register"
  /\ LET loggerName == local[t].ctx[1]
         id == Len(objs) + 1 IN
     /\ objs' = Append(objs, local[t].built)
     /\ loggersByName' = [n \in DOMAIN loggersByName \cup {loggerName} |->
                            IF n = loggerName THEN id ELSE loggersByName[n]]
     /\ returned' = Returned(local[t].ctx, id, local[t].built.ctx)
  /\ mutex' = Unlock(t)
  /\ pc' = ReadersReleased([pc EXCEPT ![t] = "idle"])
  /\ local' = [local EXCEPT ![t] = NoLocal]
  /\ UNCHANGED <<rootLogger, logFilters, clReaders, lifeVars, initCount, lastD, cfgVars>>

\* -------------------------------------------------- logManager.initialize

\* Mutant: initialize does not store the descriptor list.
StoreLogFiltersMissing(old, loggers) == old

\* initialize, line 74: lm.logFilters = loggers.
StoreLogFilters(old, loggers) == loggers

\* initialize, lines 65-66: lm.mutex.Lock().
InitializeCall(t, loggers) ==
  /\ pc[t] = "idle"
  /\ initCount < MaxInits
  /\ CanLock(t)
  /\ mutex' = Lock(t)
  /\ initCount' = initCount + 1
  /\ pc' = [pc EXCEPT ![t] = "init_root"]
  /\ local' = [local EXCEPT ![t] = [NoLocal EXCEPT !.D = loggers]]
  /\ UNCHANGED <<regVars, clReaders, lifeVars, returned, lastD, cfgVars>>

\* initialize, lines 68-80: the root's delegate, lm.logFilters, the sorted
\* names of the registered loggers.
InitializeRoot(t) ==
  /\ pc[t] = "init_root"
  /\ CanLockLogger(0)
  /\ rootLogger' = SetLogger(rootLogger, Composite(DefaultLoggers(local[t].D)))
  /\ logFilters' = StoreLogFilters(logFilters, local[t].D)
  /\ local' = [local EXCEPT ![t].names = SortStrings(DOMAIN loggersByName)]
  /\ pc' = LoggerReadersReleased([pc EXCEPT ![t] = "init_names"], 0)
  /\ UNCHANGED <<objs, loggersByName, lockVars, lifeVars, returned, initCount, lastD, cfgVars>>

\* initialize, lines 82-94: one registered logger's delegate.
InitializeName(t) ==
  /\ pc[t] = "init_names"
  /\ local[t].names # <<>>
  /\ LET name == Head(local[t].names)
         obj == loggersByName[name] IN
     /\ CanLockLogger(obj)
     /\ objs' = [objs EXCEPT ![obj] =
                   SetLogger(objs[obj], Composite(CtxLoggers(local[t].D, name)))]
     /\ pc' = LoggerReadersReleased(pc, obj)
  /\ local' = [local EXCEPT ![t].names = Tail(local[t].names)]
  /\ UNCHANGED <<rootLogger, loggersByName, logFilters, lockVars, lifeVars,
                 returned, initCount, lastD, cfgVars>>

\* initialize, line 95: return, lm.mutex.Unlock() (deferred).
InitializeReturn(t) ==
  /\ pc[t] = "init_names"
  /\ local[t].names = <<>>
  /\ mutex' = Unlock(t)
  /\ lastD' = local[t].D
  /\ pc' = ReadersReleased([pc EXCEPT ![t] = "idle"])
  /\ local' = [local EXCEPT ![t] = NoLocal]
  /\ UNCHANGED <<regVars, clReaders, lifeVars, returned, initCount, cfgVars>>

\* ------------------------------------------------------------- log calls

\* The ways a record is written:
\*   "rootLog"  logManager.Log, lines 105-113: under lm.mutex.RLock and the
\*              root logger's RLock;
\*   "Log"      ConcreteLogger.Log, lines 214-218: under the logger's RLock;
\*   "log"      ConcreteLogger.log (Debug/Info/Warn/Error), lines 204-212:
\*              the delegate is read under the RLock, written to after it.
\* The levels of the records written.
RecordLevels == {"debug", "info", "warn"}

LogKinds(obj) == IF obj = 0 THEN {"rootLog", "Log", "log"} ELSE {"Log", "log"}

\* Mutant: the delegate is read again for every member written to.
CapturedLive(t) == Deref(local[t].obj).logger

\* The delegate a log call writes through: cl.logger, read once per call.
Captured(t) == local[t].logger

\* compositeLogger.Log: the member the write has arrived at.
SinkAt(t, i) == Captured(t).loggers[i]

LogsInFlight == Cardinality({u \in Threads : pc[u] = "log_write"})

\* failing: the handlers whose write returns an error during this call.
LogCallFailing(t, obj, kind, lvl, failing) ==
  /\ pc[t] = "idle"
  /\ LogsInFlight < MaxLogsInFlight
  /\ kind = "rootLog" => CanRLock(t)
  /\ mutex' = IF kind = "rootLog"
                THEN [mutex EXCEPT !.readers = @ \cup {t}] ELSE mutex
  /\ clReaders' = IF kind \in {"rootLog", "Log"}
                    THEN clReaders \cup {<<t, obj>>} ELSE clReaders
  /\ local' = [local EXCEPT ![t] =
                 [NoLocal EXCEPT !.obj = obj, !.kind = kind, !.lvl = lvl,
                                 !.logger = Deref(obj).logger, !.idx = 1,
                                 !.seenD = lastD, !.quiet = ~Initializing,
                                 !.failing = failing]]
  /\ pc' = [pc EXCEPT ![t] = "log_write"]
  /\ UNCHANGED <<regVars, lifeVars, returned, initCount, lastD, cfgVars>>

\* A log call every write of which succeeds.
LogCall(t, obj, kind, lvl) == LogCallFailing(t, obj, kind, lvl, {})

\* One member of the composite: its filter, then its write.
LogWrite(t) ==
  /\ pc[t] = "log_write"
  /\ local[t].idx <= Len(Captured(t).loggers)
  /\ LET sink == SinkAt(t, local[t].idx)
         written == Passes(local[t].lvl, sink)
         fails == written /\ sink.val \in local[t].failing
     IN
     local' = [local EXCEPT ![t].idx = @ + 1,
                            ![t].delivered =
                               IF written /\ ~fails THEN Append(@, sink.val) ELSE @,
                            ![t].calls =
                               IF written THEN Append(@, sink.val) ELSE @,
                            ![t].err =
                               IF fails /\ @ = Nil THEN ErrOf("write", sink.val)
                               ELSE @]
  /\ UNCHANGED <<regVars, lockVars, lifeVars, pc, returned, initCount, lastD, cfgVars>>

\* Every member attempted: the locks are released (deferred RUnlock).
LogReturn(t) ==
  /\ pc[t] = "log_write"
  /\ local[t].idx > Len(Captured(t).loggers)
  /\ mutex' = [mutex EXCEPT !.readers = @ \ {t}]
  /\ clReaders' = {r \in clReaders : r[1] # t}
  /\ pc' = [pc EXCEPT ![t] = "idle"]
  /\ local' = [local EXCEPT ![t] = NoLocal]
  /\ UNCHANGED <<regVars, lifeVars, returned, initCount, lastD, cfgVars>>

\* The handlers a delegate writes to, in order.
SinksOf(logger) == [i \in DOMAIN logger.loggers |-> logger.loggers[i].val]

\* What the caller of the log method gets back. logManager.Log returns nil
\* whatever the delegate returned (lines 108-112); Debug, Info, Warn and Error
\* assign the result of log to _ (lines 187-202); ConcreteLogger.Log returns
\* the delegate's error (line 217).
CallerResultPropagated(t) == local[t].err

CallerResult(t) ==
  IF local[t].kind \in {"rootLog", "log"} THEN Nil ELSE local[t].err

\* What logManager.Log hands to log.Println, lines 108-110.
Fallback(t) ==
  IF local[t].kind = "rootLog" /\ local[t].err # Nil
    THEN <<"Logging error", "error", local[t].err>> ELSE <<>>

\* ------------------------------------------------------------------ Spec

Next ==
  \E t \in Threads :
    \/ \E ctx \in NewArgs : NewCall(t, ctx)
    \/ NewLock(t)
    \/ NewLookup(t)
    \/ NewBuild(t)
    \/ NewRegister(t)
    \/ \E loggers \in DescriptorLists(initCount + 1) : InitializeCall(t, loggers)
    \/ InitializeRoot(t)
    \/ InitializeName(t)
    \/ InitializeReturn(t)
    \/ \E obj \in 0..Len(objs) : \E kind \in LogKinds(obj) : \E lvl \in RecordLevels :
         LogCall(t, obj, kind, lvl)
    \/ LogWrite(t)
    \/ LogReturn(t)

Spec == Init /\ [][Next]_vars

\* The argument lists of New while loggers are looked up: none, a first
\* argument that is not a string, a name, a name with a pair.
LookupArgs == {<<>>, <<"#42", "k">>, <<"db">>, <<"x">>, <<"db", "k", "v">>}

\* SpecLookup: goroutines call New with and without a name while others run
\* initialize.
NextLookup ==
  \E t \in Threads :
    \/ \E ctx \in LookupArgs : NewCall(t, ctx)
    \/ NewLock(t)
    \/ NewLookup(t)
    \/ NewBuild(t)
    \/ NewRegister(t)
    \/ \E loggers \in DescriptorLists(initCount + 1) : InitializeCall(t, loggers)
    \/ InitializeRoot(t)
    \/ InitializeName(t)
    \/ InitializeReturn(t)

SpecLookup == Init /\ [][NextLookup]_vars

\* ======================================================== configuration

MaxApplies == 2

\* ---- level names and filters

\* strings.ToLower on the level names a configuration carries.
ToLower(name) ==
  CASE name = "INFO" -> "info"
    [] name = "Debug" -> "debug"
    [] name = "WARN" -> "warn"
    [] name = "Trace" -> "trace"
    [] name = "CRITICAL" -> "critical"
    [] name = "Error" -> "error"
    [] name = "Verbose" -> "verbose"
    [] OTHER -> name

\* var logLevels, lines 275-282.
LogLevelNames == {"trace", "debug", "info", "warn", "error", "critical"}

logLevels(name) ==
  CASE name = "trace" -> "debug"
    [] name = "debug" -> "debug"
    [] name = "info" -> "info"
    [] name = "warn" -> "warn"
    [] name = "error" -> "error"
    [] name = "critical" -> "error"

\* getLogLevelFromString: the level, and what it logs through the root.
getLogLevelFromString(levelName) ==
  IF levelName \notin LogLevelNames
    THEN [level |-> "error", logged |-> <<<<"Unknown log level", levelName>>>>]
    ELSE [level |-> logLevels(levelName), logged |-> <<>>]

\* getLogLevelFromConfig: the section's "level" key ("" when the key or the
\* section is absent), MustString(defaultName), lower-cased, resolved.
getLogLevelFromConfig(sectionLevel, defaultName) ==
  LET levelName == ToLower(IF sectionLevel = "" THEN defaultName ELSE sectionLevel)
      r == getLogLevelFromString(levelName)
  IN [name |-> levelName, level |-> r.level, logged |-> r.logged]

\* getFilters: a filter string is given as strings.Split(filterStr, ":")
\* yields it; a later pair for the same name replaces an earlier one.
RECURSIVE getFilters(_, _, _)
getFilters(filterStrArray, filterMap, logged) ==
  IF filterStrArray = <<>> THEN [map |-> filterMap, logged |-> logged]
  ELSE LET parts == Head(filterStrArray) IN
       IF Len(parts) > 1
         THEN LET r == getLogLevelFromString(parts[2]) IN
              getFilters(Tail(filterStrArray),
                         [k \in DOMAIN filterMap \cup {parts[1]} |->
                            IF k = parts[1] THEN r.level ELSE filterMap[k]],
                         logged \o r.logged)
         ELSE getFilters(Tail(filterStrArray), filterMap, logged)

\* Mutant: the global filters are not joined in.
JoinFiltersNone(modeFilters, defaultFilters) == modeFilters

\* Mutant: the global filters replace the mode's own.
JoinFiltersDefaultWins(modeFilters, defaultFilters) ==
  [k \in DOMAIN modeFilters \cup DOMAIN defaultFilters |->
     IF k \in DOMAIN defaultFilters THEN defaultFilters[k] ELSE modeFilters[k]]

\* ReadLoggingConfig, lines 447-452: join default filters and mode filters.
JoinFilters(modeFilters, defaultFilters) ==
  [k \in DOMAIN modeFilters \cup DOMAIN defaultFilters |->
     IF k \in DOMAIN modeFilters THEN modeFilters[k] ELSE defaultFilters[k]]

\* ---- lifecycle

\* Mutant: Close stops at the first handler that fails.
RECURSIVE CloseLoopFailFast(_, _, _, _)
CloseLoopFailFast(list, failing, err, calls) ==
  IF list = <<>> THEN [calls |-> calls, err |-> err]
  ELSE IF Head(list) \in failing
    THEN [calls |-> Append(calls, Head(list)), err |-> <<"close", Head(list)>>]
    ELSE CloseLoopFailFast(Tail(list), failing, err, Append(calls, Head(list)))

\* Close, lines 364-374: every handler is closed, the first error is kept.
RECURSIVE CloseLoop(_, _, _, _)
CloseLoop(list, failing, err, calls) ==
  IF list = <<>> THEN [calls |-> calls, err |-> err]
  ELSE LET logger == Head(list)
           e == IF logger \in failing THEN ErrOf("close", logger) ELSE Nil
       IN CloseLoop(Tail(list), failing,
                    IF e # Nil /\ err = Nil THEN e ELSE err,
                    Append(calls, logger))

\* Mutant: Reload goes on after a failure and reports the first one.
RECURSIVE ReloadLoopContinue(_, _, _)
ReloadLoopContinue(list, failing, calls) ==
  IF list = <<>> THEN [calls |-> calls, err |-> Nil]
  ELSE LET rest == ReloadLoopContinue(Tail(list), failing, Append(calls, Head(list)))
       IN IF Head(list) \in failing
            THEN [calls |-> rest.calls, err |-> <<"reload", Head(list)>>]
            ELSE rest

\* Reload, lines 377-385: the first error ends the loop.
RECURSIVE ReloadLoop(_, _, _)
ReloadLoop(list, failing, calls) ==
  IF list = <<>> THEN [calls |-> calls, err |-> Nil]
  ELSE LET logger == Head(list) IN
       IF logger \in failing
         THEN [calls |-> Append(calls, logger), err |-> ErrOf("reload", logger)]
         ELSE ReloadLoop(Tail(list), failing, Append(calls, logger))

Range(seq) == {seq[i] : i \in DOMAIN seq}

\* ---- ReadLoggingConfig

\* strings.TrimSpace on the mode names a configuration carries.
TrimSpace(mode) == CASE mode = " file" -> "file" [] OTHER -> mode

NoAcc ==
  [configLoggers |-> <<>>, toClose |-> <<>>, toReload |-> <<>>,
   logged |-> <<>>, status |-> "ok", err |-> Nil]

\* Mutant: the file handler is put on the lifecycle lists before it is known
\* to be usable.
FileSkippedButListed(acc, logged, why, h) ==
  [acc EXCEPT !.logged =
                 Append(logged, <<IF why = "mkdir" THEN "Failed to create directory"
                                  ELSE "Failed to initialize file handler", h[1]>>),
              !.toClose = Append(@, h), !.toReload = Append(@, h)]

\* Lines 418-421 and 430-433: the failure is logged through the root and the
\* loop continues with the next mode; nothing of the handler is kept.
FileSkipped(acc, logged, why, h) ==
  [acc EXCEPT !.logged =
                 Append(logged, <<IF why = "mkdir" THEN "Failed to create directory"
                                  ELSE "Failed to initialize file handler", h[1]>>)]

\* ReadLoggingConfig, lines 396-457: one turn of the loop per mode. e tags
\* the handlers this call constructs; env gives what the file system and the
\* syslog connection answer.
RECURSIVE ModeLoop(_, _, _, _, _, _, _)
ModeLoop(modes, cfg, env, e, defaultLevelName, defaultFilters, acc) ==
  IF modes = <<>> THEN acc
  ELSE
    LET mode == TrimSpace(Head(modes)) IN
    IF mode \notin DOMAIN cfg.sections
      THEN [acc EXCEPT !.logged = Append(@, <<"Unknown log mode", mode>>),
                       !.status = "error", !.err = <<"section", mode>>]
      ELSE
        LET sec == cfg.sections[mode]
            lv == getLogLevelFromConfig(sec.level, defaultLevelName)
            mf == getFilters(sec.filters, NoFilters, <<>>)
            logged == acc.logged \o lv.logged \o mf.logged
            h == <<mode, e>>
            fileFails == mode = "file" /\ env.file # "ok"
            val == CASE mode = "console" -> <<h>>
                     [] mode = "file" -> <<h>>
                     [] mode = "syslog" -> IF env.syslog = "ok" THEN <<h>> ELSE <<>>
                     [] OTHER -> <<>>
            toClose == IF mode \in {"file", "syslog"}
                         THEN Append(acc.toClose, h) ELSE acc.toClose
            toReload == IF mode = "file"
                          THEN Append(acc.toReload, h) ELSE acc.toReload
        IN
        IF fileFails
          THEN ModeLoop(Tail(modes), cfg, env, e, defaultLevelName, defaultFilters,
                        FileSkipped(acc, logged, env.file, h))
        ELSE IF val = <<>>
          THEN [acc EXCEPT !.logged = logged, !.toClose = toClose,
                           !.status = "panic", !.err = <<"uninitialized", mode>>]
          ELSE ModeLoop(Tail(modes), cfg, env, e, defaultLevelName, defaultFilters,
                 [acc EXCEPT
                    !.logged = logged, !.toClose = toClose, !.toReload = toReload,
                    !.configLoggers =
                       Append(@, LogWithFilters(val[1], lv.level,
                                                JoinFilters(mf.map, defaultFilters)))])

\* logManager.initialize, lines 64-95, as one call.
InitializeObjs(loggers) ==
  [i \in DOMAIN objs |->
     IF Registered(i)
       THEN SetLogger(objs[i], Composite(CtxLoggers(loggers, NameOf(i))))
       ELSE objs[i]]

\* Mutant: Close leaves the list as it found it.
ClearedListKept(list) == list

\* Close, line 371: loggersToClose = make([]DisposableHandler, 0).
ClearedList(list) == <<>>

\* Mutant: the descriptors built before a missing section are applied.
ShouldInitializeDespiteError(r) ==
  r.status \in {"ok", "error"} /\ Len(r.configLoggers) > 0

\* Mutant: the descriptors built before an uninitialized handler are applied.
ShouldInitializeDespitePanic(r) ==
  r.status \in {"ok", "panic"} /\ Len(r.configLoggers) > 0

\* Lines 401, 444 and 459-461: initialize is reached when the loop over the
\* modes neither returned nor panicked, and built a descriptor.
ShouldInitialize(r) == r.status = "ok" /\ Len(r.configLoggers) > 0

ReadLoggingConfig(modes, cfg, env) ==
  /\ applies < MaxApplies
  /\ env.closeFailing \subseteq Range(loggersToClose)
  /\ applies' = applies + 1
  /\ LET c == CloseLoop(loggersToClose, env.closeFailing, Nil, <<>>)
         dl == getLogLevelFromConfig(cfg.level, "info")
         df == getFilters(cfg.filters, NoFilters, <<>>)
         r == ModeLoop(modes, cfg, env, applies + 1, dl.name, df.map,
                       [NoAcc EXCEPT !.logged = dl.logged \o df.logged])
     IN
     /\ closed' = closed \o c.calls
     /\ lastClose' = [list |-> loggersToClose, failing |-> env.closeFailing,
                      calls |-> c.calls, err |-> c.err,
                      second |-> closedSinceApply,
                      prev |-> IF closedSinceApply THEN lastClose.err ELSE Nil,
                      at |-> applies + 1]
     /\ IF c.err # Nil
          THEN /\ loggersToClose' = ClearedList(loggersToClose)
               /\ closedSinceApply' = TRUE
               /\ lastApply' = [NoApply EXCEPT !.modes = modes, !.cfg = cfg,
                                               !.status = "error", !.err = c.err]
               /\ UNCHANGED <<regVars, loggersToReload, initCount, lastD>>
          ELSE /\ loggersToClose' = ClearedList(loggersToClose) \o r.toClose
               /\ loggersToReload' = loggersToReload \o r.toReload
               /\ closedSinceApply' = FALSE
               /\ lastApply' = [modes |-> modes, cfg |-> cfg, status |-> r.status,
                                err |-> r.err, logged |-> r.logged,
                                configLoggers |-> r.configLoggers]
               /\ IF ShouldInitialize(r)
                    THEN /\ rootLogger' =
                              SetLogger(rootLogger,
                                        Composite(DefaultLoggers(r.configLoggers)))
                         /\ logFilters' = StoreLogFilters(logFilters, r.configLoggers)
                         /\ objs' = InitializeObjs(r.configLoggers)
                         /\ initCount' = initCount + 1
                         /\ lastD' = r.configLoggers
                         /\ UNCHANGED loggersByName
                    ELSE UNCHANGED <<regVars, initCount, lastD>>
  /\ UNCHANGED <<lockVars, threadVars, lastReload, lastDerive>>

\* Close(), lines 364-374.
Close(failing) ==
  /\ failing \subseteq Range(loggersToClose)
  /\ LET c == CloseLoop(loggersToClose, failing, Nil, <<>>) IN
     /\ closed' = closed \o c.calls
     /\ lastClose' = [list |-> loggersToClose, failing |-> failing,
                      calls |-> c.calls, err |-> c.err,
                      second |-> closedSinceApply,
                      prev |-> IF closedSinceApply THEN lastClose.err ELSE Nil,
                      at |-> applies]
  /\ loggersToClose' = ClearedList(loggersToClose)
  /\ closedSinceApply' = TRUE
  /\ UNCHANGED <<regVars, lockVars, loggersToReload, threadVars, initCount, lastD,
                 applies, lastApply, lastReload, lastDerive>>

\* Close(), lines 364-374, a step at a time, as goroutines that call it with
\* no lock held run it. CloseCall: line 365 and the range expression of line
\* 366, which reads loggersToClose once.
CloseCall(t, failing) ==
  /\ pc[t] = "idle"
  /\ failing \subseteq Range(loggersToClose)
  /\ pc' = [pc EXCEPT ![t] = IF loggersToClose = <<>> THEN "Close_clear"
                                                      ELSE "Close_loop"]
  /\ local' = [local EXCEPT ![t] =
                 [NoLocal EXCEPT !.list = loggersToClose, !.failing = failing,
                                 !.at = applies]]
  /\ UNCHANGED <<regVars, lockVars, lifeVars, returned, initCount, lastD, cfgVars>>

\* Lines 366-370: logger.Close() on the next handler of the list read.
CloseOne(t) ==
  /\ pc[t] = "Close_loop"
  /\ LET logger == Head(local[t].list)
         e == IF logger \in local[t].failing THEN ErrOf("close", logger) ELSE Nil
     IN
     /\ closed' = Append(closed, logger)
     /\ local' = [local EXCEPT ![t].list = Tail(@),
                                ![t].calls = Append(@, logger),
                                ![t].err = IF e # Nil /\ @ = Nil THEN e ELSE @]
     /\ pc' = [pc EXCEPT ![t] = IF Tail(local[t].list) = <<>> THEN "Close_clear"
                                                               ELSE "Close_loop"]
  /\ UNCHANGED <<regVars, lockVars, lifeVars, returned, initCount, lastD,
                 applies, lastApply, lastClose, lastReload, closedSinceApply, lastDerive>>

\* Lines 371-373: the list is replaced by an empty one, err returned.
CloseReturn(t) ==
  /\ pc[t] = "Close_clear"
  /\ loggersToClose' = ClearedList(loggersToClose)
  /\ lastClose' = [list |-> local[t].calls, failing |-> local[t].failing,
                   calls |-> local[t].calls, err |-> local[t].err,
                   second |-> closedSinceApply,
                   prev |-> IF closedSinceApply THEN lastClose.err ELSE Nil,
                   at |-> local[t].at]
  /\ closedSinceApply' = TRUE
  /\ pc' = [pc EXCEPT ![t] = "idle"]
  /\ local' = [local EXCEPT ![t] = NoLocal]
  /\ UNCHANGED <<regVars, lockVars, loggersToReload, returned, initCount, lastD,
                 applies, lastApply, closed, lastReload, lastDerive>>

\* Reload(), lines 377-385.
Reload(failing) ==
  /\ failing \subseteq Range(loggersToReload)
  /\ LET r == ReloadLoop(loggersToReload, failing, <<>>) IN
     lastReload' = [list |-> loggersToReload, failing |-> failing,
                    calls |-> r.calls, err |-> r.err,
                    second |-> FALSE, prev |-> Nil, at |-> applies]
  /\ UNCHANGED <<regVars, lockVars, lifeVars, threadVars, initCount, lastD,
                 applies, lastApply, closed, lastClose, closedSinceApply, lastDerive>>

\* logManager.New, lines 115-154, as one call.
New(ctx) ==
  /\ IF Len(ctx) = 0 \/ ~IsString(ctx[1])
       THEN UNCHANGED <<objs, loggersByName, logFilters, returned>>
       ELSE IF ctx[1] \in DOMAIN loggersByName
         THEN /\ returned' = Returned(ctx, loggersByName[ctx[1]],
                                       objs[loggersByName[ctx[1]]].ctx)
              /\ UNCHANGED <<objs, loggersByName, logFilters>>
         ELSE LET ctxLogger == NewCtxLogger(rootLogger, logFilters, ctx)
                  id == Len(objs) + 1 IN
              /\ objs' = Append(objs, ctxLogger)
              /\ loggersByName' = [n \in DOMAIN loggersByName \cup {ctx[1]} |->
                                     IF n = ctx[1] THEN id ELSE loggersByName[n]]
              /\ logFilters' = LogFiltersAfterNew(logFilters, ctx[1])
              /\ returned' = Returned(ctx, id, ctxLogger.ctx)
  /\ UNCHANGED <<rootLogger, lockVars, lifeVars, pc, local,
                 initCount, lastD, cfgVars>>

\* ---- ConcreteLogger.New, lines 220-244

\* The nil that line 228 appends.
NilValue == "#nil"

\* Lines 227-229: a context of odd length gets a nil appended, in place.
Padded(ctx) == IF Len(ctx) % 2 = 1 THEN Append(ctx, NilValue) ELSE ctx

\* Mutant: the pair with the key "logger" is kept like any other.
KeyvalsWithLogger(ctx) == ctx

\* Lines 225-239: the pairs of the receiver's context, but those whose key
\* is "logger".
RECURSIVE Keyvals(_)
Keyvals(ctx) ==
  IF ctx = <<>> THEN <<>>
  ELSE (IF ctx[1] = "logger" THEN <<>> ELSE <<ctx[1], ctx[2]>>)
         \o Keyvals(Tail(Tail(ctx)))

\* ConcreteLogger.New on the logger obj (0 is the root), as one call. With no
\* argument it first calls root.New() and drops what that returns (lines
\* 221-223); in every case it returns root.New(keyvals...) (line 243), which
\* is logManager.New, lines 115-154.
Derive(obj, ctx) ==
  LET cl == Deref(obj)
      padded == Padded(cl.ctx)
      keyvals == Keyvals(padded) \o ctx
      objsPadded == IF obj = 0 THEN objs ELSE [objs EXCEPT ![obj].ctx = padded]
      isRoot == Len(keyvals) = 0 \/ ~IsString(keyvals[1])
      exists == ~isRoot /\ keyvals[1] \in DOMAIN loggersByName
      ctxLogger == NewCtxLogger(rootLogger, logFilters, keyvals)
      id == Len(objs) + 1
  IN
  /\ IF isRoot \/ exists
       THEN /\ objs' = objsPadded
            /\ UNCHANGED <<loggersByName, logFilters>>
       ELSE /\ objs' = Append(objsPadded, ctxLogger)
            /\ loggersByName' = [n \in DOMAIN loggersByName \cup {keyvals[1]} |->
                                   IF n = keyvals[1] THEN id ELSE loggersByName[n]]
            /\ logFilters' = LogFiltersAfterNew(logFilters, keyvals[1])
  /\ lastDerive' = [caller |-> obj, ctx |-> ctx, callerCtx |-> cl.ctx,
                    keyvals |-> keyvals,
                    result |-> IF isRoot THEN 0
                               ELSE IF exists THEN loggersByName[keyvals[1]]
                               ELSE id,
                    created |-> ~isRoot /\ ~exists]
  /\ UNCHANGED <<rootLogger, lockVars, lifeVars, threadVars,
                 initCount, lastD, applies, lastApply, closed, lastClose,
                 lastReload, closedSinceApply>>

\* ---- WithPrefix, WithSuffix, lines 256-273

\* The key/value pairs a delegate may carry, in front and after.
MaxAttached == 6

AttachedLen(logger) == Len(logger.ctx) + Len(SuffixOf(logger))

\* WithPrefix(ctxLogger, ctx...) on the logger obj (0 is the root).
WithPrefix(obj, ctx) ==
  /\ AttachedLen(Deref(obj).logger) + Len(ctx) <= MaxAttached
  /\ IF obj = 0
       THEN /\ rootLogger' =
                 with(rootLogger, gokitWithPrefix(rootLogger.logger, ctx), ctx)
            /\ UNCHANGED objs
       ELSE /\ objs' = [objs EXCEPT ![obj] =
                          with(@, gokitWithPrefix(@.logger, ctx), ctx)]
            /\ UNCHANGED rootLogger
  /\ UNCHANGED <<loggersByName, logFilters, lockVars, lifeVars, threadVars,
                 initCount, lastD, cfgVars>>

\* WithSuffix(ctxLogger, ctx...) on the logger obj (0 is the root).
WithSuffix(obj, ctx) ==
  /\ AttachedLen(Deref(obj).logger) + Len(ctx) <= MaxAttached
  /\ IF obj = 0
       THEN /\ rootLogger' =
                 with(rootLogger, gokitWithSuffix(rootLogger.logger, ctx), ctx)
            /\ UNCHANGED objs
       ELSE /\ objs' = [objs EXCEPT ![obj] =
                          with(@, gokitWithSuffix(@.logger, ctx), ctx)]
            /\ UNCHANGED rootLogger
  /\ UNCHANGED <<loggersByName, logFilters, lockVars, lifeVars, threadVars,
                 initCount, lastD, cfgVars>>

\* ---- the configurations applied

Globals ==
  { [level |-> "", filters |-> <<>>],
    [level |-> "debug", filters |-> <<<<"x", "warn">>>>] }

ConsoleSections ==
  { [level |-> "info", filters |-> <<>>],
    [level |-> "", filters |-> <<<<"db", "error">>>>] }

\* <<>> stands for a configuration without a [log.file] section.
FileSections ==
  { <<[level |-> "warn", filters |-> <<<<"db", "debug">>>>]>>,
    <<[level |-> "", filters |-> <<<<"x", "debug">>, <<"x">>>>]>>,
    <<>> }

SyslogSection == [level |-> "error", filters |-> <<>>]

Cfgs ==
  { [level |-> g.level, filters |-> g.filters,
     sections |->
       [m \in {"console", "syslog"} \cup (IF f = <<>> THEN {} ELSE {"file"}) |->
          CASE m = "console" -> c
            [] m = "syslog" -> SyslogSection
            [] OTHER -> f[1]]] :
    g \in Globals, c \in ConsoleSections, f \in FileSections }

ModeLists ==
  { <<"console">>, <<"file">>, <<"console", " file">>, <<"file", "console">>,
    <<"file", "syslog">>, <<"syslog", "console">> }

Envs(failing) ==
  { [file |-> f, syslog |-> "ok", closeFailing |-> failing] :
    f \in {"ok", "mkdir", "init"} }

\* While configurations of every shape are applied, closing a handler succeeds.
ConfigEnvs == {env \in Envs({}) : env.file \in {"ok", "init"}}

\* The names New is called with while configurations are applied.
ConfigNewArgs == {<<"db">>, <<"x">>}

\* SpecConfig: configurations of every shape are applied, loggers are looked up.
NextConfig ==
  \/ \E modes \in ModeLists : \E cfg \in Cfgs : \E env \in ConfigEnvs :
       ReadLoggingConfig(modes, cfg, env)
  \/ \E ctx \in ConfigNewArgs : New(ctx)

SpecConfig == Init /\ [][NextConfig]_vars

\* The configuration the lifecycle runs apply: every mode has its section.
LifeCfgs ==
  { cfg \in Cfgs :
      /\ cfg.level = ""
      /\ "file" \in DOMAIN cfg.sections
      /\ cfg.sections["file"].level = "warn"
      /\ cfg.sections["console"].level = "info" }

\* SpecLife: configurations are applied, the handlers closed and reloaded.
NextLife ==
  \/ \E modes \in ModeLists : \E cfg \in LifeCfgs :
       \E failing \in SUBSET Range(loggersToClose) : \E env \in Envs(failing) :
         ReadLoggingConfig(modes, cfg, env)
  \/ \E failing \in SUBSET Range(loggersToClose) : Close(failing)
  \/ \E failing \in SUBSET Range(loggersToReload) : Reload(failing)

SpecLife == Init /\ [][NextLife]_vars

\* The configurations and mode lists that make ReadLoggingConfig fail: a
\* configuration with or without a [log.file] section, with a [log.other]
\* section for which line 412 builds no handler.
ApplyCfgs ==
  { [level |-> cfg.level, filters |-> cfg.filters,
     sections |->
       [m \in DOMAIN cfg.sections \cup {"other"} |->
          IF m = "other" THEN [level |-> "", filters |-> <<>>]
          ELSE cfg.sections[m]]] :
    cfg \in { c \in Cfgs : /\ c.level = ""
                            /\ c.sections["console"].level = "info"
                            /\ "file" \in DOMAIN c.sections
                                 => c.sections["file"].level = "warn" } }

ApplyModeLists ==
  { <<"console", "file">>, <<"file", "console">>, <<"console", "other">>,
    <<"other", "file">>, <<"syslog", "console">>, <<"file", "syslog", "console">> }

\* What os.MkdirAll and fileHandler.Init answer, and whether NewSyslog
\* returns a handler that has a logger.
ApplyEnvs ==
  { env \in { [file |-> f, syslog |-> y, closeFailing |-> {}] :
                f \in {"ok", "mkdir", "init"}, y \in {"ok", "nil"} } :
      env.file = "ok" \/ env.syslog = "ok" }

\* The name New is called with while these configurations are applied.
ApplyNewArgs == {<<"db">>}

\* SpecApply: configurations that fail in every way are applied, loggers are
\* looked up.
NextApply ==
  \/ \E modes \in ApplyModeLists : \E cfg \in ApplyCfgs : \E env \in ApplyEnvs :
       ReadLoggingConfig(modes, cfg, env)
  \/ \E ctx \in ApplyNewArgs : New(ctx)

SpecApply == Init /\ [][NextApply]_vars

\* The configurations whose level names are written in upper, lower and mixed
\* case, and some of which are no level names: as the global level, as a
\* mode's level, and in "loggerName:level" filter strings.
LevelGlobals ==
  { [level |-> l, filters |-> f] :
      l \in {"", "WARN", "Verbose"}, f \in {<<>>, <<<<"db", "Debug">>>>} }

LevelConsoleSections == { [level |-> l, filters |-> <<>>] : l \in {"", "Trace"} }

LevelFileSections ==
  { [level |-> l, filters |-> f] :
      l \in {"", "CRITICAL"},
      f \in {<<>>, <<<<"x", "Error">>, <<"db", "loud">>>>} }

LevelCfgs ==
  { [level |-> g.level, filters |-> g.filters,
     sections |-> [m \in {"console", "file"} |->
                     IF m = "console" THEN c ELSE f]] :
    g \in LevelGlobals, c \in LevelConsoleSections, f \in LevelFileSections }

LevelModeLists == { <<"console">>, <<"file">>, <<"console", "file">> }

\* SpecLevels: configurations with level names of every spelling are applied,
\* a logger is looked up.
NextLevels ==
  \/ \E modes \in LevelModeLists : \E cfg \in LevelCfgs :
       ReadLoggingConfig(modes, cfg, [file |-> "ok", syslog |-> "ok",
                                      closeFailing |-> {}])
  \/ \E ctx \in ApplyNewArgs : New(ctx)

SpecLevels == Init /\ [][NextLevels]_vars

\* SpecWrite: records are written through sinks whose write can fail, while
\* loggers are looked up and, between log calls, configurations applied.
NextWrite ==
  \/ /\ \A t \in Threads : pc[t] = "idle"
     /\ \E modes \in ModeLists : \E cfg \in LifeCfgs : \E env \in Envs({}) :
          ReadLoggingConfig(modes, cfg, env)
  \/ \E ctx \in ApplyNewArgs : New(ctx)
  \/ \E t \in Threads : \E obj \in 0..Len(objs) : \E kind \in LogKinds(obj) :
       \E lvl \in RecordLevels :
         \E failing \in SUBSET Range(SinksOf(Deref(obj).logger)) :
           LogCallFailing(t, obj, kind, lvl, failing)
  \/ \E t \in Threads : LogWrite(t)
  \/ \E t \in Threads : LogReturn(t)

SpecWrite == Init /\ [][NextWrite]_vars

\* The argument lists of New and of ConcreteLogger.New while loggers are
\* derived: a name alone, a name with a pair, a name with a key that has no
\* value; no argument, a name, a name with a pair.
DeriveNewArgs == {<<"db">>, <<"db", "k", "v">>, <<"x", "k">>}

DeriveArgs == {<<>>, <<"x">>, <<"y", "k2", "v2">>}

\* SpecDerive: loggers are looked up and derived from one another, up to
\* MaxLoggers of them.
NextDerive ==
  \/ \E ctx \in DeriveNewArgs : New(ctx) /\ Len(objs') <= MaxLoggers
  \/ \E obj \in 0..Len(objs) : \E ctx \in DeriveArgs :
       Derive(obj, ctx) /\ Len(objs') <= MaxLoggers

SpecDerive == Init /\ [][NextDerive]_vars

\* ReadLoggingConfig called while log calls are in flight. It takes lm.mutex
\* and every logger's mutex in initialize (lines 65, 176), so the call as a
\* whole runs when no goroutine holds one of them; a Debug, Info, Warn or
\* Error call holds none while it writes (lines 205-211).
Reconfigure(modes, cfg, env) ==
  /\ CanLock(0)
  /\ clReaders = {}
  /\ ReadLoggingConfig(modes, cfg, env)

\* SpecReconfigure: records are written by goroutines while configurations
\* are applied and Close() is called.
NextReconfigure ==
  \/ \E modes \in ModeLists : \E cfg \in LifeCfgs : \E env \in Envs({}) :
       Reconfigure(modes, cfg, env)
  \/ Close({})
  \/ \E ctx \in ApplyNewArgs : CanLock(0) /\ New(ctx)
  \/ \E t \in Threads : \E obj \in 0..Len(objs) : \E kind \in LogKinds(obj) :
       \E lvl \in RecordLevels : LogCall(t, obj, kind, lvl)
  \/ \E t \in Threads : LogWrite(t)
  \/ \E t \in Threads : LogReturn(t)

SpecReconfigure == Init /\ [][NextReconfigure]_vars

\* The pairs WithPrefix and WithSuffix are called with: none, one.
WithArgs == {<<>>, <<"k", "v">>}

ContextModeLists == {<<"console">>, <<"file", "console">>}

\* SpecContext: loggers are looked up and given more context with WithPrefix
\* and WithSuffix, configurations are applied.
NextContext ==
  \/ \E ctx \in ConfigNewArgs : New(ctx)
  \/ \E obj \in 0..Len(objs) : \E ctx \in WithArgs : WithPrefix(obj, ctx)
  \/ \E obj \in 0..Len(objs) : \E ctx \in WithArgs : WithSuffix(obj, ctx)
  \/ \E modes \in ContextModeLists : \E cfg \in LifeCfgs :
       ReadLoggingConfig(modes, cfg, [file |-> "ok", syslog |-> "ok",
                                      closeFailing |-> {}])

SpecContext == Init /\ [][NextContext]_vars

\* ---- the locks, request by request

\* sync.RWMutex lets no RLock call through while a Lock call is blocked. A
\* goroutine that has arrived at a Lock has called it: on lm.mutex in New
\* (line 116), in initialize (line 65) and in the root.New() of
\* ConcreteLogger.New (line 222); on a logger's mutex in SetLogger (line 176,
\* also from initialize, lines 73 and 93) and in GetLogger (line 182).
PendingOnManager ==
  \E u \in Threads : pc[u] \in {"New_lock", "init_lock", "Derive_lock"}

PendingOnLogger(obj) ==
  \E u \in Threads :
    \/ pc[u] = "init_root" /\ obj = 0
    \/ /\ pc[u] = "init_names" /\ local[u].names # <<>>
       /\ loggersByName[Head(local[u].names)] = obj
    \/ pc[u] = "cl_lock" /\ local[u].obj = obj

\* lm.mutex.RLock(), line 106: no writer holds the lock and none is waiting,
\* or the Unlock of the writer it was blocked behind has let it in.
RLockGranted(t) ==
  \/ pc[t] = "rootLog_granted"
  \/ pc[t] = "rootLog_rlock" /\ mutex.writer = 0 /\ ~PendingOnManager

\* cl.mutex.RLock(), lines 205 and 215: SetLogger and GetLogger hold the
\* lock for one assignment or one read, so a writer is in the way only
\* while it waits; or the Unlock of the writer the call was blocked behind
\* has let it in.
RLockLoggerGranted(t) ==
  \/ pc[t] = "Log_granted"
  \/ pc[t] = "Log_rlock" /\ ~PendingOnLogger(local[t].obj)

\* initialize is called: the goroutine arrives at lm.mutex.Lock(), line 65.
InitializeRequest(t, loggers) ==
  /\ pc[t] = "idle"
  /\ initCount < MaxInits
  /\ initCount' = initCount + 1
  /\ pc' = [pc EXCEPT ![t] = "init_lock"]
  /\ local' = [local EXCEPT ![t] = [NoLocal EXCEPT !.D = loggers]]
  /\ UNCHANGED <<regVars, lockVars, lifeVars, returned, lastD, cfgVars>>

\* initialize, line 65: lm.mutex.Lock() is granted.
InitializeLock(t) ==
  /\ pc[t] = "init_lock"
  /\ CanLock(t)
  /\ mutex' = Lock(t)
  /\ pc' = [pc EXCEPT ![t] = "init_root"]
  /\ UNCHANGED <<regVars, clReaders, lifeVars, local, returned, initCount, lastD,
                 cfgVars>>

\* logManager.Log is called: the goroutine arrives at lm.mutex.RLock(),
\* line 106.
RootLogCall(t, lvl) ==
  /\ pc[t] = "idle"
  /\ pc' = [pc EXCEPT ![t] = "rootLog_rlock"]
  /\ local' = [local EXCEPT ![t] =
                 [NoLocal EXCEPT !.obj = 0, !.kind = "rootLog", !.lvl = lvl]]
  /\ UNCHANGED <<regVars, lockVars, lifeVars, returned, initCount, lastD, cfgVars>>

\* Line 106 granted; line 108 calls lm.ConcreteLogger.Log, which arrives at
\* cl.mutex.RLock(), line 215, with lm.mutex read-locked.
RootLogRLock(t) ==
  /\ RLockGranted(t)
  /\ mutex' = [mutex EXCEPT !.readers = @ \cup {t}]
  /\ pc' = [pc EXCEPT ![t] = "Log_rlock"]
  /\ UNCHANGED <<regVars, clReaders, lifeVars, local, returned, initCount, lastD,
                 cfgVars>>

\* ConcreteLogger.Log or ConcreteLogger.log is called on the logger obj: the
\* goroutine arrives at cl.mutex.RLock(), line 215 or 205.
LoggerLogCall(t, obj, kind, lvl) ==
  /\ pc[t] = "idle"
  /\ pc' = [pc EXCEPT ![t] = "Log_rlock"]
  /\ local' = [local EXCEPT ![t] =
                 [NoLocal EXCEPT !.obj = obj, !.kind = kind, !.lvl = lvl]]
  /\ UNCHANGED <<regVars, lockVars, lifeVars, returned, initCount, lastD, cfgVars>>

\* cl.mutex.RLock() granted and cl.logger read. Log keeps the lock while it
\* writes (lines 215-217); log releases it before (line 207).
LogRLock(t) ==
  /\ RLockLoggerGranted(t)
  /\ clReaders' = IF local[t].kind \in {"rootLog", "Log"}
                    THEN clReaders \cup {<<t, local[t].obj>>} ELSE clReaders
  /\ local' = [local EXCEPT ![t].logger = Deref(local[t].obj).logger,
                            ![t].idx = 1]
  /\ pc' = [pc EXCEPT ![t] = "log_write"]
  /\ UNCHANGED <<regVars, mutex, lifeVars, returned, initCount, lastD, cfgVars>>

\* GetLogger or SetLogger is called on the logger obj: the goroutine arrives
\* at cl.mutex.Lock(), line 182 or 176.
LoggerLockCall(t, obj, kind) ==
  /\ pc[t] = "idle"
  /\ pc' = [pc EXCEPT ![t] = "cl_lock"]
  /\ local' = [local EXCEPT ![t] = [NoLocal EXCEPT !.obj = obj, !.kind = kind]]
  /\ UNCHANGED <<regVars, lockVars, lifeVars, returned, initCount, lastD, cfgVars>>

\* cl.mutex.Lock() granted; GetLogger reads cl.logger (lines 182-184),
\* SetLogger replaces it (lines 176-178), here by the default logger; the
\* lock is released.
LoggerLocked(t) ==
  /\ pc[t] = "cl_lock"
  /\ CanLockLogger(local[t].obj)
  /\ IF local[t].kind = "SetLogger"
       THEN IF local[t].obj = 0
              THEN /\ rootLogger' = SetLogger(rootLogger, DefaultLogger)
                   /\ UNCHANGED objs
              ELSE /\ objs' = [objs EXCEPT ![local[t].obj] =
                                 SetLogger(@, DefaultLogger)]
                   /\ UNCHANGED rootLogger
       ELSE UNCHANGED <<rootLogger, objs>>
  /\ pc' = LoggerReadersReleased([pc EXCEPT ![t] = "idle"], local[t].obj)
  /\ local' = [local EXCEPT ![t] = NoLocal]
  /\ UNCHANGED <<loggersByName, logFilters, lockVars, lifeVars, returned,
                 initCount, lastD, cfgVars>>

\* The receiver's context after lines 227-229.
PaddedObjs(obj) ==
  IF obj = 0 THEN objs ELSE [objs EXCEPT ![obj].ctx = Padded(@)]

\* ConcreteLogger.New is called on the logger obj. With no argument the
\* goroutine arrives at the lm.mutex.Lock() of root.New(), line 222; else it
\* builds keyvals (lines 225-241) and arrives at that of root.New(keyvals...),
\* line 243.
DeriveCall(t, obj, ctx) ==
  /\ pc[t] = "idle"
  /\ IF Len(ctx) = 0
       THEN /\ pc' = [pc EXCEPT ![t] = "Derive_lock"]
            /\ local' = [local EXCEPT ![t] = [NoLocal EXCEPT !.obj = obj]]
            /\ UNCHANGED objs
       ELSE /\ pc' = [pc EXCEPT ![t] = "New_lock"]
            /\ local' = [local EXCEPT ![t] =
                           [NoLocal EXCEPT !.ctx = Keyvals(Padded(Deref(obj).ctx))
                                                     \o ctx]]
            /\ objs' = PaddedObjs(obj)
  /\ UNCHANGED <<rootLogger, loggersByName, logFilters, lockVars, lifeVars,
                 returned, initCount, lastD, cfgVars>>

\* Line 222: root.New() locks lm.mutex, returns the root and unlocks (lines
\* 116-120); its result is dropped, keyvals are built, and the goroutine
\* arrives at the Lock of line 243.
DeriveFirst(t) ==
  /\ pc[t] = "Derive_lock"
  /\ CanLock(t)
  /\ pc' = ReadersReleased([pc EXCEPT ![t] = "New_lock"])
  /\ local' = [local EXCEPT ![t] =
                 [NoLocal EXCEPT !.ctx = Keyvals(Padded(Deref(local[t].obj).ctx))]]
  /\ objs' = PaddedObjs(local[t].obj)
  /\ UNCHANGED <<rootLogger, loggersByName, logFilters, lockVars, lifeVars,
                 returned, initCount, lastD, cfgVars>>

\* The calls made while the locks are watched.
LockNewArgs == {<<"db">>}

LockDeriveArgs == {<<>>}

LockRecordLevels == {"warn"}

LockDescriptorLists(e) ==
  {D \in DescriptorLists(e) : Len(D) = 1}

\* The initialize calls made while the locks are watched.
MaxLockInits == 1

\* A goroutine inside an operation takes its next step.
Step(t) ==
  \/ NewLock(t)
  \/ NewLookup(t)
  \/ NewBuild(t)
  \/ NewRegister(t)
  \/ InitializeLock(t)
  \/ InitializeRoot(t)
  \/ InitializeName(t)
  \/ InitializeReturn(t)
  \/ RootLogRLock(t)
  \/ LogRLock(t)
  \/ LogWrite(t)
  \/ LogReturn(t)
  \/ LoggerLocked(t)
  \/ DeriveFirst(t)

\* A goroutine calls an operation.
Call(t) ==
  \/ \E ctx \in LockNewArgs : NewCall(t, ctx)
  \/ \E loggers \in LockDescriptorLists(initCount + 1) :
       initCount < MaxLockInits /\ InitializeRequest(t, loggers)
  \/ \E lvl \in LockRecordLevels : RootLogCall(t, lvl)
  \/ \E obj \in 0..Len(objs) : \E kind \in {"Log", "log"} :
       \E lvl \in LockRecordLevels : LoggerLogCall(t, obj, kind, lvl)
  \/ \E obj \in 0..Len(objs) : \E kind \in {"GetLogger", "SetLogger"} :
       LoggerLockCall(t, obj, kind)
  \/ \E obj \in 0..Len(objs) : \E ctx \in LockDeriveArgs : DeriveCall(t, obj, ctx)

NextLocks == \E t \in Threads : Call(t) \/ Step(t)

\* The Go scheduler runs every goroutine that can run, a sink's write
\* returns, and a lock that is free again and again is granted to a goroutine
\* that waits for it (sync.RWMutex queues its writers, a blocked Lock holds
\* back later RLock calls, and the readers blocked behind a writer are let
\* in when it unlocks): a goroutine whose next step is possible again and
\* again takes it. At most one step of a goroutine is possible at a time,
\* and a step that needs no lock stays possible until it is taken.
LocksFairness == \A t \in Threads : SF_vars(Step(t))

\* SpecLocks: goroutines log through the root and through named loggers, look
\* loggers up, derive them, read and replace delegates and run initialize,
\* every lock request a step of its own.
SpecLocks == Init /\ [][NextLocks]_vars /\ LocksFairness

\* SpecShutdown: goroutines call Close() while configurations are applied.
NextShutdown ==
  \/ \E modes \in ModeLists : \E cfg \in LifeCfgs : \E env \in Envs({}) :
       ReadLoggingConfig(modes, cfg, env)
  \/ \E t \in Threads : \E failing \in SUBSET Range(loggersToClose) :
       CloseCall(t, failing)
  \/ \E t \in Threads : CloseOne(t)
  \/ \E t \in Threads : CloseReturn(t)

SpecShutdown == Init /\ [][NextShutdown]_vars

\* ============================================================== properties

\* The threshold a descriptor applies to a logger name: its override for the
\* name when it has one, its own default otherwise.
Threshold(d, n) == IF n \in DOMAIN d.filters THEN d.filters[n] ELSE d.maxLevel

\* The handlers of a descriptor list, and of a delegate, in order.
HandlersOf(D) == [i \in DOMAIN D |-> D[i].val.val]

\* A log call in flight that began when no initialize was running and at
\* least one had returned.
StartedAfterInit(t) ==
  pc[t] = "log_write" /\ local[t].quiet /\ local[t].seenD # <<>>

LogDone(t) == pc[t] = "log_write" /\ local[t].idx > Len(Captured(t).loggers)

\* ---- C1
C1_Identity ==
  \A n \in DOMAIN loggersByName :
    /\ n \in DOMAIN loggersByName'
    /\ loggersByName'[n] = loggersByName[n]
    /\ Len(objs') >= loggersByName[n]

C1_Delegate ==
  \A t \in Threads :
    (StartedAfterInit(t) /\ Registered(local[t].obj))
      => SinksOf(Captured(t)) = HandlersOf(local[t].seenD)

\* C1: the object registered for a name is never replaced (initialize only
\* swaps its delegate), and a log call through a registered logger that starts
\* after an initialize has returned writes through the sinks of the most
\* recent initialize, without a new lookup.
C1_IdentityStable == [](C1_Delegate) /\ [][C1_Identity]_vars

\* A logger handed out before any initialize began is written through after
\* two initialize calls have returned, and the write goes to the sinks of the
\* second.
C1_Witness ==
  \E t \in Threads : \E r \in returned :
    /\ r.epoch = 0
    /\ StartedAfterInit(t)
    /\ local[t].obj = r.obj
    /\ LogDone(t)
    /\ initCount = 2
    /\ SinksOf(Captured(t)) = HandlersOf(lastD)
    /\ \A i \in DOMAIN lastD : lastD[i].val.val[2] = 2

\* ---- C2
RECURSIVE ExpectedDeliveries(_, _, _)
ExpectedDeliveries(D, n, L) ==
  IF D = <<>> THEN <<>>
  ELSE LET d == Head(D)
           thr == IF n = "" THEN d.maxLevel ELSE Threshold(d, n)
       IN (IF LevelOrd(L) >= LevelOrd(thr) THEN <<d.val.val>> ELSE <<>>)
            \o ExpectedDeliveries(Tail(D), n, L)

\* The name a log call's logger is registered under ("" for the root).
LogName(t) == IF local[t].obj = 0 THEN "" ELSE NameOf(local[t].obj)

AppliesThresholds(lg, D, n) ==
  /\ Len(lg) = Len(D)
  /\ \A i \in DOMAIN D :
       /\ lg[i].val = D[i].val.val
       /\ \A L \in Levels :
            Passes(L, lg[i]) <=>
              LevelOrd(L) >= LevelOrd(IF n = "" THEN D[i].maxLevel
                                                ELSE Threshold(D[i], n))

\* C2: at every sink descriptor d, a logger named n is filtered at d's
\* override for n when d has one and at d's default otherwise, the root at
\* every descriptor's default; this holds for the loggers initialize rebuilt
\* and for those New built afterwards, and a record of level L reaches d
\* exactly when L is at or above that threshold.
C2_PerSinkThreshold ==
  /\ (~Initializing /\ lastD # <<>>) =>
       /\ AppliesThresholds(rootLogger.logger.loggers, lastD, "")
       /\ \A n \in DOMAIN loggersByName :
            AppliesThresholds(objs[loggersByName[n]].logger.loggers, lastD, n)
  /\ \A t \in Threads :
       (StartedAfterInit(t) /\ LogDone(t)
          /\ (local[t].obj = 0 \/ Registered(local[t].obj)))
         => local[t].delivered =
              ExpectedDeliveries(local[t].seenD, LogName(t), local[t].lvl)

\* console@info and file@warn with the override db:debug: a debug record of
\* logger "db" has reached file and not console.
C2_Witness ==
  \E t \in Threads :
    /\ StartedAfterInit(t) /\ LogDone(t)
    /\ local[t].obj # 0 /\ Registered(local[t].obj) /\ LogName(t) = "db"
    /\ local[t].lvl = "debug"
    /\ Len(local[t].seenD) = 2
    /\ local[t].seenD[1].val.val[1] = "console"
    /\ local[t].seenD[1].maxLevel = "info"
    /\ local[t].seenD[2].maxLevel = "warn"
    /\ Len(local[t].delivered) = 1
    /\ local[t].delivered[1][1] = "file"

\* ---- C3
\* C3: a name has exactly one logger object, created by the first New for
\* it; every caller of New with that name holds that object, with the context
\* of the first request, whatever context a later call passes.
C3_NameSingleton ==
  /\ \A r1, r2 \in returned :
       r1.name = r2.name => (r1.obj = r2.obj /\ r1.ctx = r2.ctx)
  /\ \A r \in returned :
       /\ r.name \in DOMAIN loggersByName
       /\ loggersByName[r.name] = r.obj
       /\ objs[r.obj].ctx = r.ctx
       /\ \E f \in returned : f.obj = r.obj /\ r.ctx = <<"logger">> \o f.args
  /\ \A n \in Names :
       Cardinality({i \in DOMAIN objs : objs[i].ctx[2] = n})
         = IF n \in DOMAIN loggersByName THEN 1 ELSE 0

\* Two calls of New with the same name and different context pairs have
\* returned, both holding the same object with the first call's context; and
\* two goroutines are in New for one unseen name at once, one about to
\* register its logger, the other waiting for the lock.
C3_Witness ==
  /\ \E r1, r2 \in returned :
       /\ r1.name = r2.name /\ r1.args # r2.args
       /\ r1.obj = r2.obj
       /\ r1.ctx = <<"logger">> \o r1.args
       /\ r2.ctx # <<"logger">> \o r2.args
  /\ \E t, u \in Threads :
       /\ pc[t] = "New_register" /\ pc[u] = "New_lock"
       /\ local[t].ctx[1] = local[u].ctx[1]

\* ---- C4
\* C4: every sink a single record has been delivered to belongs to one and
\* the same installed sink set (the handlers of one initialize, or the
\* default sink), also when initialize runs during the log call.
C4_NoTornRecord ==
  \A t \in Threads :
    pc[t] = "log_write" =>
      \A i, j \in DOMAIN local[t].delivered :
        local[t].delivered[i][2] = local[t].delivered[j][2]

\* A record has been delivered to both sinks of the set it started with
\* although an initialize has replaced the logger's delegate meanwhile.
C4_Witness ==
  \E t \in Threads :
    /\ LogDone(t)
    /\ Len(local[t].delivered) = 2
    /\ local[t].delivered[1][2] = 1
    /\ local[t].delivered[2][2] = 1
    /\ SinksOf(Deref(local[t].obj).logger)[1][2] = 2

\* ---- C5
Expected(D, n) ==
  [i \in DOMAIN D |->
     [val |-> D[i].val.val,
      allowed |-> <<IF n = "" THEN D[i].maxLevel ELSE Threshold(D[i], n)>>]]

\* C5: once initialize(D) has returned (and none is running), the registry
\* holds D, the root and every registered logger have the delegate D gives
\* them, a New in progress has built from D, and a log call that starts then
\* writes through the delegate D gives its logger.
C5_ObservesLastInit ==
  /\ (~Initializing /\ lastD # <<>>) =>
       /\ logFilters = lastD
       /\ rootLogger.logger.loggers = Expected(lastD, "")
       /\ \A n \in DOMAIN loggersByName :
            objs[loggersByName[n]].logger.loggers = Expected(lastD, n)
       /\ \A t \in Threads :
            pc[t] = "New_register" =>
              local[t].built.logger.loggers = Expected(lastD, local[t].ctx[1])
  /\ \A t \in Threads :
       (StartedAfterInit(t) /\ (local[t].obj = 0 \/ Registered(local[t].obj)))
         => Captured(t).loggers = Expected(local[t].seenD, LogName(t))

\* A logger first handed out by a New that began after an initialize has a
\* record written through it, and a second initialize has returned since.
C5_Witness ==
  \E t \in Threads : \E r \in returned :
    /\ r.epoch = 1
    /\ r.obj = local[t].obj
    /\ StartedAfterInit(t) /\ LogDone(t)
    /\ initCount = 2 /\ ~Initializing
    /\ local[t].seenD = lastD
    /\ lastD[1].val.val[2] = 2

\* ---- C6
\* The last configuration apply went through and its descriptors are the
\* ones in force.
Applied ==
  /\ lastApply.status = "ok"
  /\ lastApply.configLoggers # <<>>

ModeOf(d) == d.val.val[1]

\* The filters a section of the applied configuration states itself.
OwnFilters(section) == getFilters(section.filters, NoFilters, <<>>).map

GlobalFilters == getFilters(lastApply.cfg.filters, NoFilters, <<>>).map

\* The global filter for "x" is warn, the file section's own is debug, file
\* is one of the modes applied, and logger "x" is registered.
C6_Case ==
  /\ Applied
  /\ \E i \in DOMAIN logFilters : ModeOf(logFilters[i]) = "file"
  /\ "x" \in DOMAIN loggersByName
  /\ "x" \in DOMAIN GlobalFilters /\ GlobalFilters["x"] = "warn"
  /\ "file" \in DOMAIN lastApply.cfg.sections
  /\ "x" \in DOMAIN OwnFilters(lastApply.cfg.sections["file"])
  /\ OwnFilters(lastApply.cfg.sections["file"])["x"] = "debug"

\* The threshold chain logger "x" has at the i-th sink.
AppliedToX(i) == objs[loggersByName["x"]].logger.loggers[i].allowed

\* C6 as stated: the file sink filters "x" at debug; a mode without a filter
\* for "x" of its own filters "x" at its mode-level default.
C6_OwnDefaultForSecondMode ==
  C6_Case =>
    \A i \in DOMAIN logFilters :
      /\ ModeOf(logFilters[i]) = "file" => AppliedToX(i) = <<"debug">>
      /\ (/\ ModeOf(logFilters[i]) # "file"
          /\ "x" \notin DOMAIN OwnFilters(lastApply.cfg.sections[ModeOf(logFilters[i])]))
           => AppliedToX(i) = <<logFilters[i].maxLevel>>

\* C6 amended: the file sink filters "x" at debug; a mode without a filter
\* for "x" of its own filters "x" at the global override, warn.
C6_GlobalOverrideForSecondMode ==
  C6_Case =>
    \A i \in DOMAIN logFilters :
      /\ ModeOf(logFilters[i]) = "file" => AppliedToX(i) = <<"debug">>
      /\ (/\ ModeOf(logFilters[i]) # "file"
          /\ "x" \notin DOMAIN OwnFilters(lastApply.cfg.sections[ModeOf(logFilters[i])]))
           => AppliedToX(i) = <<"warn">>

\* file and console are applied; "x" is filtered at debug by file and at warn
\* by console, whose own default is info.
C6_Witness ==
  /\ C6_Case
  /\ Len(logFilters) = 2
  /\ \E i, j \in DOMAIN logFilters :
       /\ ModeOf(logFilters[i]) = "file" /\ AppliedToX(i) = <<"debug">>
       /\ ModeOf(logFilters[j]) = "console" /\ AppliedToX(j) = <<"warn">>
       /\ logFilters[j].maxLevel = "info"

\* ---- C7
\* C7: the override map of every applied descriptor is the union of the
\* global filters and the mode's own: the mode's level for a name the mode
\* names, the global level for a name only the global filters name.
C7_FiltersAreUnion ==
  Applied =>
    /\ logFilters = lastApply.configLoggers
    /\ \A i \in DOMAIN logFilters :
         LET own == OwnFilters(lastApply.cfg.sections[ModeOf(logFilters[i])])
             merged == logFilters[i].filters
         IN /\ DOMAIN merged = DOMAIN own \cup DOMAIN GlobalFilters
            /\ \A k \in DOMAIN merged :
                 merged[k] = IF k \in DOMAIN own THEN own[k] ELSE GlobalFilters[k]

\* An applied descriptor whose map holds a name from both layers with the
\* mode's level, and one whose map holds a name from the global layer only.
C7_Witness ==
  /\ Applied
  /\ \E i, j \in DOMAIN logFilters :
       /\ "x" \in DOMAIN OwnFilters(lastApply.cfg.sections[ModeOf(logFilters[i])])
       /\ "x" \in DOMAIN GlobalFilters
       /\ logFilters[i].filters["x"] # GlobalFilters["x"]
       /\ "x" \notin DOMAIN OwnFilters(lastApply.cfg.sections[ModeOf(logFilters[j])])
       /\ "db" \in DOMAIN OwnFilters(lastApply.cfg.sections[ModeOf(logFilters[j])])
       /\ DOMAIN logFilters[j].filters = {"db", "x"}
       /\ logFilters[j].filters["x"] = GlobalFilters["x"]

\* ---- C8
\* C8: after a Close() the closable list is empty, and a Close() that follows
\* another with no configuration built in between finds the list empty, calls
\* close on no handler and returns nil.
C8_CloseIdempotent ==
  /\ closedSinceApply => loggersToClose = <<>>
  /\ lastClose.second =>
       (lastClose.list = <<>> /\ lastClose.calls = <<>> /\ lastClose.err = Nil)

\* A second Close() has run after a first one that returned an error.
C8_Witness ==
  /\ lastClose.second
  /\ lastClose.prev # Nil
  /\ closed # <<>>
  /\ lastClose.calls = <<>>

\* ---- C9
FirstFailing(list, failing) ==
  IF \A i \in DOMAIN list : list[i] \notin failing THEN 0
  ELSE CHOOSE i \in DOMAIN list :
         list[i] \in failing /\ \A j \in 1..(i - 1) : list[j] \notin failing

\* C9: Close() calls close on every handler of the list, in list order, also
\* after a failure; it returns the first failing handler's error, nil when
\* none fails; the list is empty afterwards.
C9_CloseAllFirstError ==
  /\ lastClose.calls = lastClose.list
  /\ lastClose.err =
       IF FirstFailing(lastClose.list, lastClose.failing) = 0 THEN Nil
       ELSE <<"close", lastClose.list[FirstFailing(lastClose.list, lastClose.failing)]>>
  /\ closedSinceApply => loggersToClose = <<>>

\* Two handlers were on the list and both failed: both were closed, the
\* first one's error was returned, the list is empty.
C9_Witness ==
  /\ Len(lastClose.list) = 2
  /\ Range(lastClose.list) \subseteq lastClose.failing
  /\ Len(lastClose.calls) = 2
  /\ lastClose.err = <<"close", lastClose.list[1]>>
  /\ loggersToClose = <<>>

\* ---- C10
C10_Calls ==
  LET k == FirstFailing(lastReload.list, lastReload.failing) IN
  /\ lastReload.calls =
       IF k = 0 THEN lastReload.list ELSE SubSeq(lastReload.list, 1, k)
  /\ lastReload.err = IF k = 0 THEN Nil ELSE <<"reload", lastReload.list[k]>>

\* C10: Reload() calls reload in registration order up to the first handler
\* that fails, returns that handler's error and calls no later handler;
\* it returns nil only when every handler reloaded; it leaves the list as it
\* found it.
C10_ReloadFailFast ==
  /\ [](C10_Calls)
  /\ [][lastReload' # lastReload => loggersToReload' = loggersToReload]_vars

\* Two handlers were on the list and the first failed: only the first was
\* called, its error returned, and both are still on the list.
C10_Witness ==
  /\ Len(lastReload.list) = 2
  /\ lastReload.list[1] \in lastReload.failing
  /\ lastReload.calls = <<lastReload.list[1]>>
  /\ lastReload.err = <<"reload", lastReload.list[1]>>
  /\ loggersToReload = lastReload.list

\* ---- C11
\* C11: after a configuration has been applied, the closable list and the
\* reloadable list hold only handlers the most recent ReadLoggingConfig
\* constructed, and a Reload() invokes reload on no handler of an earlier
\* configuration.
C11_ListsOfLastApply ==
  /\ lastApply.status = "ok" =>
       \A h \in Range(loggersToClose) \cup Range(loggersToReload) : h[2] = applies
  /\ \A i \in DOMAIN lastReload.calls : lastReload.calls[i][2] = lastReload.at

\* ---- C12
\* The closable handlers the last applied configuration installed.
ClosableApplied ==
  { h \in { lastApply.configLoggers[i].val.val :
              i \in DOMAIN lastApply.configLoggers } :
      h[1] \in {"file", "syslog"} }

\* C12: over any sequence of applies and Close() calls, concurrent ones
\* included, close is invoked on each closable handler at most once, and once
\* a Close() that began after the last apply has returned, on every closable
\* handler that apply installed.
C12_ClosedExactlyOnce ==
  /\ \A i, j \in DOMAIN closed : i # j => closed[i] # closed[j]
  /\ (/\ lastApply.status = "ok"
      /\ closedSinceApply
      /\ lastClose.at = applies)
       => ClosableApplied \subseteq Range(closed)

\* ---- C13
\* The positions of the requested modes that have no configuration section.
MissingSections ==
  { i \in DOMAIN lastApply.modes :
      TrimSpace(lastApply.modes[i]) \notin DOMAIN lastApply.cfg.sections }

FirstMissing == CHOOSE i \in MissingSections : \A j \in MissingSections : i <= j

\* A ReadLoggingConfig step whose mode list names a mode without a section
\* leaves the root delegate, the named loggers and the descriptor list alone.
C13_NotApplied ==
  (applies' # applies /\ MissingSections' # {}) => UNCHANGED regVars

C13_Outcome ==
  MissingSections # {} =>
    \/ /\ lastApply.status = "error"
       /\ lastApply.err = <<"section", TrimSpace(lastApply.modes[FirstMissing])>>
    \/ /\ lastApply.status = "panic"
       /\ \E j \in 1..(FirstMissing - 1) :
            lastApply.err = <<"uninitialized", TrimSpace(lastApply.modes[j])>>

FileFailed ==
  \E i \in DOMAIN lastApply.logged :
    lastApply.logged[i][1] \in {"Failed to create directory",
                                "Failed to initialize file handler"}

\* The requested modes other than file, as written in the mode list.
RECURSIVE OtherModes(_)
OtherModes(modes) ==
  IF modes = <<>> THEN <<>>
  ELSE IF TrimSpace(Head(modes)) = "file" THEN OtherModes(Tail(modes))
  ELSE <<TrimSpace(Head(modes))>> \o OtherModes(Tail(modes))

\* Every other requested mode is console or syslog, has its section, and the
\* call did not end with a panic.
OthersBuildable ==
  /\ \A i \in DOMAIN lastApply.modes :
       /\ TrimSpace(lastApply.modes[i]) \in {"console", "file", "syslog"}
       /\ TrimSpace(lastApply.modes[i]) \in DOMAIN lastApply.cfg.sections
  /\ lastApply.status # "panic"

\* C14: when the file sink cannot be constructed it is on neither lifecycle
\* list and not among the applied descriptors; no error is returned and the
\* other requested modes are the active descriptors, in their order.
C14_FileSinkSkipped ==
  FileFailed =>
    /\ <<"file", applies>> \notin Range(loggersToClose) \cup Range(loggersToReload)
    /\ \A i \in DOMAIN lastApply.configLoggers :
         ModeOf(lastApply.configLoggers[i]) # "file"
    /\ OthersBuildable =>
         /\ lastApply.status = "ok"
         /\ lastApply.err = Nil
         /\ [i \in DOMAIN lastApply.configLoggers |->
               ModeOf(lastApply.configLoggers[i])] = OtherModes(lastApply.modes)
         /\ \A i \in DOMAIN lastApply.configLoggers :
              lastApply.configLoggers[i].val.val[2] = applies
         /\ lastApply.configLoggers # <<>> =>
              /\ logFilters = lastApply.configLoggers
              /\ SinksOf(rootLogger.logger) = HandlersOf(logFilters)

\* file, syslog and console were requested, the file handler failed, and
\* syslog and console are the active descriptors, syslog alone closable.
C14_Witness ==
  /\ FileFailed
  /\ lastApply.modes = <<"file", "syslog", "console">>
  /\ lastApply.status = "ok"
  /\ Len(logFilters) = 2
  /\ ModeOf(logFilters[1]) = "syslog" /\ ModeOf(logFilters[2]) = "console"
  /\ loggersToClose = <<<<"syslog", applies>>>>

\* ---- C15
\* A delegate that is the one stderr console sink filtered at info.
IsDefaultDelegate(logger) ==
  /\ Len(logger.loggers) = 1
  /\ logger.loggers[1].val = StderrHandler
  /\ \A L \in Levels :
       Passes(L, logger.loggers[1]) <=> LevelOrd(L) >= LevelOrd("info")

\* A log call in flight that began in the Default state: no initialize had
\* begun to run or returned.
StartedInDefault(t) ==
  pc[t] = "log_write" /\ local[t].quiet /\ local[t].seenD = <<>>

\* C15: before any configuration is applied the descriptor list is empty and
\* the root and every logger New built deliver through one console sink at
\* info, so info and above is written and debug is not; the loggers built in
\* this state are registered, and the first initialize rebuilds them.
C15_DefaultState ==
  /\ initCount = 0 =>
       /\ logFilters = <<>>
       /\ IsDefaultDelegate(rootLogger.logger)
       /\ \A i \in DOMAIN objs : IsDefaultDelegate(objs[i].logger) /\ Registered(i)
  /\ \A t \in Threads :
       (StartedInDefault(t) /\ LogDone(t)) =>
         local[t].delivered =
           IF LevelOrd(local[t].lvl) >= LevelOrd("info")
             THEN <<StderrHandler>> ELSE <<>>
  /\ (~Initializing /\ lastD # <<>>) =>
       \A r \in returned :
         r.epoch = 0 =>
           /\ Registered(r.obj)
           /\ SinksOf(objs[r.obj].logger) = HandlersOf(lastD)

\* A debug record written through a named logger in the Default state reached
\* no sink, and by now the first initialize has rebuilt that logger.
C15_Witness ==
  \E t \in Threads :
    /\ StartedInDefault(t) /\ LogDone(t)
    /\ local[t].obj # 0
    /\ local[t].lvl = "debug"
    /\ local[t].delivered = <<>>
    /\ initCount = 1 /\ ~Initializing /\ lastD # <<>>
    /\ SinksOf(objs[local[t].obj].logger) = HandlersOf(lastD)
    /\ \E r \in returned : r.obj = local[t].obj /\ r.epoch = 0

\* ---- C16
\* The caller of the root's Log and of Debug, Info, Warn and Error gets no
\* error back, whatever the sinks returned; the root's Log reports a failure
\* to the process log.
C16_CallerSeesNoError ==
  \A t \in Threads :
    (LogDone(t) /\ local[t].kind \in {"rootLog", "log"}) =>
      /\ CallerResult(t) = Nil
      /\ (local[t].kind = "rootLog" /\ local[t].err # Nil) => Fallback(t) # <<>>

\* A step in which a sink's write fails leaves the name map, the descriptor
\* list, the delegates and the lifecycle lists as they were.
C16_WriteFailureKeepsState ==
  (\E t \in Threads : pc[t] = "log_write" /\ local'[t].err # local[t].err)
    => UNCHANGED <<regVars, lifeVars>>

\* C16: a sink write failure is never propagated to the caller of Debug, Info,
\* Warn, Error or of the root's Log, which reports it to the process log
\* instead, and it changes no registry state.
C16_WriteErrorsSwallowed ==
  /\ [](C16_CallerSeesNoError)
  /\ [][C16_WriteFailureKeepsState]_vars

\* A record written through the root's Log to two sinks: the first write
\* failed, the second succeeded, and the caller gets nil.
C16_Witness ==
  \E t \in Threads :
    /\ LogDone(t)
    /\ local[t].kind = "rootLog"
    /\ Len(local[t].calls) = 2
    /\ local[t].err = ErrOf("write", local[t].calls[1])
    /\ local[t].delivered = <<local[t].calls[2]>>
    /\ CallerResult(t) = Nil
    /\ Fallback(t) = <<"Logging error", "error", local[t].err>>

\* ---- C17
\* C17: ConcreteLogger.New with no argument returns the logger it was called
\* on, for the root and for every named logger, with or without bound context.
C17_DeriveNothingIsIdentity ==
  (lastDerive.caller # -1 /\ lastDerive.ctx = <<>>)
    => lastDerive.result = lastDerive.caller

\* ---- C18
\* The pairs the receiver of the last ConcreteLogger.New carried besides its
\* "logger" pair.
RECURSIVE WithoutLoggerPair(_)
WithoutLoggerPair(c) ==
  IF Len(c) = 0 THEN <<>>
  ELSE LET k == c[1]
           v == IF Len(c) = 1 THEN "#nil" ELSE c[2]
           rest == WithoutLoggerPair(SubSeq(c, 3, Len(c)))
       IN IF k = "logger" THEN rest ELSE <<k, v>> \o rest

CallerPairs == WithoutLoggerPair(lastDerive.callerCtx)

\* C18: ConcreteLogger.New with a name as first argument returns the logger
\* registered under that name, whatever context the receiver carries; a
\* logger it creates carries the receiver's pairs and the new ones.
C18_DeriveResolvesName ==
  (/\ lastDerive.caller # -1
   /\ lastDerive.ctx # <<>>
   /\ IsString(lastDerive.ctx[1]))
    => /\ lastDerive.ctx[1] \in DOMAIN loggersByName
       /\ lastDerive.result = loggersByName[lastDerive.ctx[1]]
       /\ lastDerive.created =>
            \/ objs[lastDerive.result].ctx =
                 <<"logger", lastDerive.ctx[1]>> \o CallerPairs
                   \o Tail(lastDerive.ctx)
            \/ objs[lastDerive.result].ctx =
                 <<"logger", lastDerive.ctx[1]>> \o Tail(lastDerive.ctx)
                   \o CallerPairs

\* ---- C19
\* The context starts with the pair "logger", name and has no other pair
\* whose key is "logger".
LoggerKeyOnce(c, name) ==
  /\ Len(c) >= 2
  /\ c[1] = "logger" /\ c[2] = name
  /\ \A j \in DOMAIN c : (j > 1 /\ j % 2 = 1) => c[j] # "logger"

NoHandlerModes ==
  { i \in DOMAIN lastApply.modes :
      /\ TrimSpace(lastApply.modes[i]) \in DOMAIN lastApply.cfg.sections
      /\ TrimSpace(lastApply.modes[i]) \notin {"console", "file", "syslog"} }

\* The call reached a mode for which no handler is built: no mode before it
\* lacks its section.
ReachedNoHandlerMode ==
  \E i \in NoHandlerModes : \A j \in MissingSections : i < j

\* A call that reaches such a mode ends with a panic, and a call that ended
\* with a panic met such a mode or a syslog handler without a logger.
C20_Panics ==
  /\ ReachedNoHandlerMode => lastApply.status = "panic"
  /\ lastApply.status = "panic" =>
       /\ lastApply.err[1] = "uninitialized"
       /\ \/ lastApply.err[2] = "syslog"
          \/ \E i \in NoHandlerModes : TrimSpace(lastApply.modes[i]) = lastApply.err[2]

\* A ReadLoggingConfig step that ends with a panic leaves the root delegate,
\* the named loggers and the descriptor list alone.
C20_NotApplied ==
  (applies' # applies /\ lastApply'.status = "panic") => UNCHANGED regVars

\* C20: when a requested mode has a section but no handler is produced for
\* it, ReadLoggingConfig panics; initialize is not called and the installed
\* sinks, the descriptor list and the named loggers' delegates stay as they
\* were.
C20_PanicOnUninitializedHandler ==
  /\ [](C20_Panics)
  /\ [][C20_NotApplied]_vars

\* The second call built console and then panicked at the mode other; the
\* descriptors of the first call and a named logger are still in place.
C20_Witness ==
  /\ applies = 2
  /\ lastApply.modes = <<"console", "other">>
  /\ lastApply.status = "panic"
  /\ Len(lastApply.configLoggers) = 1
  /\ logFilters # <<>>
  /\ \A i \in DOMAIN logFilters : logFilters[i].val.val[2] = 1
  /\ "db" \in DOMAIN loggersByName
  /\ SinksOf(objs[loggersByName["db"]].logger) = HandlersOf(logFilters)

\* ---- C21
\* The level names that are in no letter case a key of logLevels.
UnknownLevelNames == {"verbose", "loud"}

\* The filter strings of a section that carry the level name u.
FiltersNaming(filters, u) ==
  {i \in DOMAIN filters : Len(filters[i]) > 1 /\ ToLower(filters[i][2]) = u}

\* How often the applied configuration states the level name u: as the
\* global level, in the global filters, and as the level and in the filters
\* of the sections of the requested modes.
Stated(u) ==
  LET cfg == lastApply.cfg
      InSection(i) ==
        LET sec == cfg.sections[TrimSpace(lastApply.modes[i])] IN
        (IF ToLower(sec.level) = u THEN 1 ELSE 0)
          + Cardinality(FiltersNaming(sec.filters, u))
      RECURSIVE Sum(_)
      Sum(i) == IF i = 0 THEN 0 ELSE InSection(i) + Sum(i - 1)
  IN (IF ToLower(cfg.level) = u THEN 1 ELSE 0)
       + Cardinality(FiltersNaming(cfg.filters, u))
       + Sum(Len(lastApply.modes))

\* How often the last apply logged "Unknown log level" for u through the root.
LoggedUnknown(u) ==
  Cardinality({i \in DOMAIN lastApply.logged :
                 /\ lastApply.logged[i][1] = "Unknown log level"
                 /\ ToLower(lastApply.logged[i][2]) = u})

\* The level name in force for the mode of the i-th applied descriptor.
EffectiveLevelName(i) ==
  LET sec == lastApply.cfg.sections[ModeOf(lastApply.configLoggers[i])] IN
  IF sec.level # "" THEN sec.level
  ELSE IF lastApply.cfg.level # "" THEN lastApply.cfg.level ELSE "info"

\* C21: in an applied configuration a level name that is no level name gives
\* the error threshold, and "Unknown log level" is logged through the root
\* once for every place the configuration states that name, also when the
\* name is the global level that modes without a level of their own inherit.
C21_UnknownLevelLoggedOnce ==
  Applied =>
    /\ \A i \in DOMAIN lastApply.configLoggers :
         ToLower(EffectiveLevelName(i)) \in UnknownLevelNames
           => lastApply.configLoggers[i].maxLevel = "error"
    /\ \A u \in UnknownLevelNames : LoggedUnknown(u) = Stated(u)

\* What holds of the code: the name is logged once where it is stated and
\* once more for every requested mode that inherits it as its default level.
Inheriting(u) ==
  Cardinality({i \in DOMAIN lastApply.modes :
                 /\ lastApply.cfg.sections[TrimSpace(lastApply.modes[i])].level = ""
                 /\ ToLower(lastApply.cfg.level) = u})

C21_LoggedAgainPerInheritingMode ==
  Applied =>
    \A u \in UnknownLevelNames : LoggedUnknown(u) = Stated(u) + Inheriting(u)

\* ---- C22
\* The threshold a level name stands for when its letter case is ignored.
CaseInsensitive(name) ==
  IF ToLower(name) \in LogLevelNames THEN logLevels(ToLower(name)) ELSE "error"

\* The level part of the last filter string of the list that names logger k.
LevelPartFor(filters, k) ==
  LET naming == {i \in DOMAIN filters : Len(filters[i]) > 1 /\ filters[i][1] = k}
      last == CHOOSE i \in naming : \A j \in naming : j <= i
  IN filters[last][2]

NamedIn(filters) == {filters[i][1] : i \in {j \in DOMAIN filters : Len(filters[j]) > 1}}

\* The level name the configuration gives logger k at the i-th applied
\* descriptor: the mode's own filter for k, else the global one.
FilterLevelName(i, k) ==
  LET sec == lastApply.cfg.sections[ModeOf(lastApply.configLoggers[i])] IN
  IF k \in NamedIn(sec.filters) THEN LevelPartFor(sec.filters, k)
  ELSE LevelPartFor(lastApply.cfg.filters, k)

\* The global level and the modes' levels are resolved whatever their case.
C22_LevelKeysCaseInsensitive ==
  Applied =>
    \A i \in DOMAIN lastApply.configLoggers :
      lastApply.configLoggers[i].maxLevel = CaseInsensitive(EffectiveLevelName(i))

\* C22: a level name gives the same threshold in every letter case, as the
\* global level, as a mode's level and as the level part of a filter string.
C22_CaseInsensitiveEverywhere ==
  /\ C22_LevelKeysCaseInsensitive
  /\ Applied =>
       \A i \in DOMAIN lastApply.configLoggers :
         \A k \in DOMAIN lastApply.configLoggers[i].filters :
           lastApply.configLoggers[i].filters[k]
             = CaseInsensitive(FilterLevelName(i, k))

\* ---- C23
\* The requested modes as ReadLoggingConfig reads them.
Trimmed(modes) == [i \in DOMAIN modes |-> TrimSpace(modes[i])]

\* The modes the last apply built a descriptor for: the requested ones in
\* their order, without file when the file handler could not be built.
ModesBuilt ==
  IF FileFailed THEN OtherModes(lastApply.modes) ELSE Trimmed(lastApply.modes)

\* C23: the applied descriptor list is the list of the requested modes in
\* their order, without the sinks skipped; the root's composite and the
\* composite of every registered logger, rebuilt by initialize or built by
\* New, have one member per applied descriptor, in the descriptors' order.
C23_InsertionOrderKept ==
  /\ Applied =>
       /\ [i \in DOMAIN lastApply.configLoggers |->
             ModeOf(lastApply.configLoggers[i])] = ModesBuilt
       /\ logFilters = lastApply.configLoggers
  /\ logFilters # <<>> =>
       /\ SinksOf(rootLogger.logger) = HandlersOf(logFilters)
       /\ \A n \in DOMAIN loggersByName :
            SinksOf(objs[loggersByName[n]].logger) = HandlersOf(logFilters)

\* file and console were applied in that order; a logger handed out before
\* the apply and one first built by New after it both write to file, then
\* to console.
C23_Witness ==
  /\ Applied
  /\ Trimmed(lastApply.modes) = <<"file", "console">>
  /\ HandlersOf(logFilters) = <<<<"file", applies>>, <<"console", applies>>>>
  /\ \E r1, r2 \in returned :
       /\ r1.epoch = 0 /\ r2.epoch = initCount /\ initCount > 0
       /\ SinksOf(objs[r1.obj].logger) = HandlersOf(logFilters)
       /\ SinksOf(objs[r2.obj].logger) = HandlersOf(logFilters)

\* ---- C24
\* The handlers installed: the sinks the root and the registered loggers
\* write to.
Installed ==
  Range(SinksOf(rootLogger.logger))
    \cup UNION {Range(SinksOf(objs[loggersByName[n]].logger)) :
                  n \in DOMAIN loggersByName}

\* C24: once ReadLoggingConfig has returned, with nil or with an error, or
\* having built no descriptor, no handler close has been invoked on is a
\* sink of the root or of a registered logger.
C24_NoClosedHandlerInstalled ==
  (applies > 0 /\ lastApply.status \in {"ok", "error"}) =>
    Installed \cap Range(closed) = {}

\* What holds of the code: an apply that went through and built a descriptor
\* leaves no closed handler installed.
C24_NoneAfterSuccess ==
  Applied => Installed \cap Range(closed) = {}

\* ---- C25
\* A step in which the log call of goroutine t invokes write on a handler.
Writes(t) ==
  /\ pc[t] = "log_write" /\ pc'[t] = "log_write"
  /\ Len(local'[t].calls) = Len(local[t].calls) + 1

Written(t) == local'[t].calls[Len(local'[t].calls)]

\* C25: with log calls running while configurations are applied and Close()
\* is called, no log call invokes write on a handler close has been invoked
\* on before.
C25_NoWriteAfterClose ==
  [][\A t \in Threads : Writes(t) => Written(t) \notin Range(closed)]_vars

\* ---- C27
\* A step of goroutine t inside logManager.New.
NewStep(t) ==
  /\ pc[t] \in {"New_lock", "New_lookup", "New_build", "New_register"}
  /\ pc'[t] # pc[t]

\* The call names no logger, or one that is registered.
NoNewName(t) ==
  LET ctx == local[t].ctx IN
  Len(ctx) = 0 \/ ~IsString(ctx[1]) \/ ctx[1] \in DOMAIN loggersByName

\* What a step of New leaves alone: the descriptor list, the root, every
\* logger there is and every entry of the name map; the one entry it may add
\* is that of the name it was called with.
C27_Frame(t) ==
  /\ logFilters' = logFilters
  /\ rootLogger' = rootLogger
  /\ Len(objs') >= Len(objs)
  /\ \A i \in DOMAIN objs : objs'[i] = objs[i]
  /\ \A n \in DOMAIN loggersByName :
       n \in DOMAIN loggersByName' /\ loggersByName'[n] = loggersByName[n]
  /\ DOMAIN loggersByName' \ DOMAIN loggersByName
       \subseteq (IF local[t].ctx = <<>> THEN {} ELSE {local[t].ctx[1]})
  /\ NoNewName(t) => UNCHANGED regVars

\* No filter is put around a sink that has one: the descriptors hold the
\* writers as they were built, every logger's sink is behind one threshold.
C27_NoStacking ==
  /\ \A i \in DOMAIN logFilters : logFilters[i].val.allowed = <<>>
  /\ \A i \in DOMAIN objs :
       \A j \in DOMAIN objs[i].logger.loggers :
         Len(objs[i].logger.loggers[j].allowed) = 1

\* C27: New changes nothing but the name map entry of a name not seen before:
\* the descriptor list, the root delegate and the delegates of the other
\* loggers stay, so filters do not stack over successive calls; with no
\* argument, a first argument that is no string, or a registered name, it
\* changes nothing of the registry.
C27_NewChangesOnlyItsName ==
  /\ [](C27_NoStacking)
  /\ [][\A t \in Threads : NewStep(t) => C27_Frame(t)]_vars

\* After an initialize two names were first built by New, one after the
\* other, each behind its own thresholds; a call whose first argument is no
\* string is at its lookup.
C27_Witness ==
  /\ logFilters # <<>>
  /\ \E r1, r2 \in returned :
       /\ r1.name = "db" /\ r2.name = "x"
       /\ r1.epoch > 0 /\ r2.epoch > 0
       /\ r1.obj < r2.obj
       /\ objs[r1.obj].logger.loggers # objs[r2.obj].logger.loggers
  /\ \E t \in Threads : pc[t] = "New_lookup" /\ local[t].ctx = <<"#42", "k">>

\* ---- C28
\* The key/value pairs a logger attaches to its records: those in front of
\* the record's own and those after.
Attached(cl) == <<cl.logger.ctx, SuffixOf(cl.logger)>>

\* C28: an initialize leaves what every named logger attaches to its
\* records as it was, the pairs added with WithPrefix and WithSuffix
\* included.
C28_ContextKeptAcrossInitialize ==
  [][initCount' # initCount =>
       \A i \in DOMAIN objs : Attached(objs'[i]) = Attached(objs[i])]_vars

\* What holds of the code: after an initialize a logger attaches the context
\* it was created with, and nothing else.
C28_ContextOfCreationKept ==
  [][initCount' # initCount =>
       /\ Attached(rootLogger') = <<<<>>, <<>>>>
       /\ \A i \in DOMAIN objs : Attached(objs'[i]) = <<objs[i].ctx, <<>>>>]_vars

\* ---- C26
\* The goroutine waits for lm.mutex, or for a logger's mutex.
RequestsManager(t) ==
  pc[t] \in {"New_lock", "init_lock", "Derive_lock", "rootLog_rlock"}

RequestsLogger(t) ==
  \/ pc[t] \in {"Log_rlock", "cl_lock", "init_root"}
  \/ pc[t] = "init_names" /\ local[t].names # <<>>

HoldsManager(t) ==
  mutex.writer = t \/ t \in mutex.readers \/ pc[t] = "rootLog_granted"

HoldsLogger(t) == pc[t] = "Log_granted" \/ \E r \in clReaders : r[1] = t

\* lm.mutex is requested with no lock held; a logger's mutex is requested
\* with no logger's mutex held.
C26_LockOrder ==
  \A t \in Threads :
    /\ RequestsManager(t) => (~HoldsManager(t) /\ ~HoldsLogger(t))
    /\ RequestsLogger(t) => ~HoldsLogger(t)

\* While a goroutine is inside an operation, one of them can take a step.
C26_NoneStuck ==
  (\E t \in Threads : pc[t] # "idle") => \E t \in Threads : ENABLED Step(t)

\* C26: no interleaving of root Log calls, log calls of named loggers, New,
\* ConcreteLogger.New, GetLogger, SetLogger and initialize deadlocks: lm.mutex
\* is taken before a logger's mutex and never after it, no lock is requested
\* by the goroutine that holds it, and every operation returns.
C26_NoDeadlock ==
  /\ [](C26_LockOrder)
  /\ [](C26_NoneStuck)
  /\ \A t \in Threads : (pc[t] # "idle") ~> (pc[t] = "idle")

\* An initialize that holds lm.mutex waits for the mutex of a named logger
\* that a Log call holds read-locked while it writes.
C26_Witness ==
  \E t, u \in Threads :
    /\ pc[u] = "init_names" /\ mutex.writer = u /\ local[u].names # <<>>
    /\ pc[t] = "log_write" /\ local[t].kind = "Log"
    /\ <<t, loggersByName[Head(local[u].names)]>> \in clReaders
    /\ ~ENABLED Step(u)

====
